---- MODULE Spec2Model ----
(***************************************************************************)
(* A model of dwm's window lifecycle, tag algebra and focus manager        *)
(* (src/dwm.c, the Xlib build with XINERAMA, configured by src/config.h).  *)
(*                                                                         *)
(* A window handle is a number in Win; a Client is identified by the       *)
(* handle of the window it manages (wintoclient finds at most one client   *)
(* per handle).  A Monitor is identified by its position in the list mons: *)
(* monitors are appended at the tail and removed from the tail, so the     *)
(* position of a surviving monitor never changes.  A tag mask (unsigned    *)
(* int) is the set of its bit positions: & is \cap, | is \cup, ^ is the    *)
(* symmetric difference.                                                   *)
(***************************************************************************)
EXTENDS Integers, Sequences, FiniteSets, TLC

(* bounds of the model *)
MaxWin == 2
MaxMons == 2
NTags == 2

NULL == 0
Win == 1..MaxWin
\* bit positions of a mask: the tag bits and one bit above TAGMASK
Bits == 0..NTags
TAGMASK == 0..(NTags - 1)
\* every value of an unsigned mask
Masks == SUBSET Bits
\* ~0
AllBits == Bits
\* the masks 1 << TAG of TAGKEYS and of the tag bar buttons
TagMasks == {{t} : t \in TAGMASK}
\* the masks keys[] binds view to: 0 (Mod+Tab), ~0 (Mod+0) and TAGKEYS
ViewMasks == {{}, AllBits} \cup TagMasks
\* the masks keys[] binds tag to: ~0 (Mod+Shift+0) and TAGKEYS
TagKeyMasks == {AllBits} \cup TagMasks

XorMask(a, b) == (a \ b) \cup (b \ a)

(* layouts[] of config.h: arrange is the layout function, NULL for floating *)
layouts ==
    << [symbol |-> "[]=", arrange |-> "tile"],
       [symbol |-> "><>", arrange |-> "NULL"],
       [symbol |-> "[M]", arrange |-> "monocle"] >>

(* rules[] of config.h; 1 << 8 is the bit of the last tag *)
rules ==
    << [class |-> "Gimp", tags |-> {}, isfloating |-> TRUE, monitor |-> -1],
       [class |-> "Firefox", tags |-> {NTags - 1}, isfloating |-> FALSE, monitor |-> -1] >>

VARIABLES
    mons,     \* the list of monitors, mons[1] is the C variable mons
    selmon,   \* position in mons of the selected monitor
    cl,       \* cl[w]: the Client record of window w, NoClient when not allocated
    pc,       \* where the process is: "run" in the loop of run(), "exit"
              \* after cleanup(), "segv" after a NULL dereference,
              \* "movemouse" and "resizemouse" in the loop of the function
    events,   \* how many events run() has handled, counted where the runs
              \* are bounded (the handlers with geometry)
    grab      \* the pointer grab of movemouse and resizemouse: whether the
              \* server holds the pointer for dwm, and the locals of the
              \* function that is in its loop

vars == <<mons, selmon, cl, pc, events, grab>>

\* no grab: held is the state of the X server, c, x, y, ocx and ocy are the
\* locals of movemouse and resizemouse, type is ev.type of the last event
\* that the loop of the function took
NoGrab ==
    [held |-> FALSE, c |-> 0, x |-> 0, y |-> 0, ocx |-> 0, ocy |-> 0,
     type |-> "None"]

\* closing is no field of the Client: it says what killclient has sent for
\* the window, "asked" for the WM_DELETE_WINDOW message and "killed" for
\* XKillClient, and "destroyed" once the server has done the XKillClient
NoClient ==
    [mon |-> 0, tags |-> {}, isfloating |-> FALSE, isurgent |-> FALSE,
     closing |-> "no"]

(* the state the functions of dwm.c read and write *)
World == [mons |-> mons, selmon |-> selmon, cl |-> cl, pc |-> pc]

\* the flag running of run(): the event loop takes the next event
running == pc = "run"

\* a dereference of a NULL pointer ends the process
segv(S) == [S EXCEPT !.pc = "segv"]

----------------------------------------------------------------------------
(* list helpers: the singly linked lists are sequences, head first *)

Elems(s) == {s[i] : i \in DOMAIN s}

Min(S) == CHOOSE x \in S : \A y \in S : x <= y

\* the list without its first occurrence of c
RemoveFirst(s, c) ==
    LET idx == {i \in DOMAIN s : s[i] = c}
    IN IF idx = {} THEN s
       ELSE LET k == Min(idx)
            IN SubSeq(s, 1, k - 1) \o SubSeq(s, k + 1, Len(s))

Reverse(s) == [i \in DOMAIN s |-> s[Len(s) + 1 - i]]

----------------------------------------------------------------------------
(* monitors *)

\* A pointer to a Layout is the position of the layout in layouts[], from 1;
\* 0 points to the layout foo of cleanup().
createmon ==
    [tagset |-> << {0}, {0} >>, seltags |-> 0,
     clients |-> << >>, stack |-> << >>, sel |-> NULL,
     sellt |-> 0, lt |-> << 1, 2 >>]

\* m->tagset[m->seltags]
curtags(m) == m.tagset[m.seltags + 1]

\* the layout foo = { "", NULL } of cleanup()
foo == [symbol |-> "", arrange |-> "NULL"]

\* m->lt[m->sellt]->arrange
ltarrange(m) ==
    IF m.lt[m.sellt + 1] = 0 THEN foo.arrange ELSE layouts[m.lt[m.sellt + 1]].arrange

ISVISIBLE(S, c) == (S.cl[c].tags \cap curtags(S.mons[S.cl[c].mon])) # {}

\* for(t = list; t && !ISVISIBLE(t); t = t->snext): the first visible, or NULL
firstvisible(S, s) ==
    LET idx == {i \in DOMAIN s : ISVISIBLE(S, s[i])}
    IN IF idx = {} THEN NULL ELSE s[Min(idx)]

wintoclient(S, w) ==
    IF \E m \in DOMAIN S.mons : \E i \in DOMAIN S.mons[m].clients :
           S.mons[m].clients[i] = w
    THEN w ELSE NULL

\* attach that links the client at the tail of the list
attach_tail(S, c) ==
    [S EXCEPT !.mons[S.cl[c].mon].clients = @ \o <<c>>]

attach(S, c) ==
    [S EXCEPT !.mons[S.cl[c].mon].clients = <<c>> \o @]

attachstack(S, c) ==
    [S EXCEPT !.mons[S.cl[c].mon].stack = <<c>> \o @]

detach(S, c) ==
    [S EXCEPT !.mons[S.cl[c].mon].clients = RemoveFirst(@, c)]

\* detachstack that unlinks the client and leaves sel alone
detachstack_keepsel(S, c) ==
    [S EXCEPT !.mons[S.cl[c].mon].stack = RemoveFirst(@, c)]

detachstack(S, c) ==
    LET m == S.cl[c].mon
        S1 == [S EXCEPT !.mons[m].stack = RemoveFirst(@, c)]
    IN IF c = S.mons[m].sel
       THEN [S1 EXCEPT !.mons[m].sel = firstvisible(S1, S1.mons[m].stack)]
       ELSE S1

dirtomon(S, dir) ==
    IF dir > 0
    THEN IF S.selmon < Len(S.mons) THEN S.selmon + 1 ELSE 1
    ELSE IF S.selmon = 1 THEN Len(S.mons) ELSE S.selmon - 1

----------------------------------------------------------------------------
(* focus and the stack *)

\* unfocus(), grabbuttons(), setfocus(), drawbars(), restack() and arrange()
\* only talk to the X server or write geometry; they change none of the
\* state of this model and have no operator here.

\* focus that pushes the client on the stack without taking it off first
focus_nodetach(S, c0) ==
    LET c == IF c0 = NULL \/ ~ISVISIBLE(S, c0)
             THEN firstvisible(S, S.mons[S.selmon].stack)
             ELSE c0
    IN IF c # NULL
       THEN LET S1 == [S EXCEPT !.selmon = S.cl[c].mon]
                S2 == attachstack(S1, c)
            IN [S2 EXCEPT !.mons[S2.selmon].sel = c, !.cl[c].isurgent = FALSE]
       ELSE [S EXCEPT !.mons[S.selmon].sel = NULL]

\* focus that falls back to the last visible client of the stack
focus_oldest(S, c0) ==
    LET st == S.mons[S.selmon].stack
        idx == {i \in DOMAIN st : ISVISIBLE(S, st[i])}
        c == IF c0 = NULL \/ ~ISVISIBLE(S, c0)
             THEN IF idx = {} THEN NULL ELSE st[CHOOSE i \in idx : \A j \in idx : j <= i]
             ELSE c0
    IN IF c # NULL
       THEN LET S1 == [S EXCEPT !.selmon = S.cl[c].mon]
                S2 == attachstack(detachstack(S1, c), c)
            IN [S2 EXCEPT !.mons[S2.selmon].sel = c, !.cl[c].isurgent = FALSE]
       ELSE [S EXCEPT !.mons[S.selmon].sel = NULL]

focus(S, c0) ==
    LET c == IF c0 = NULL \/ ~ISVISIBLE(S, c0)
             THEN firstvisible(S, S.mons[S.selmon].stack)
             ELSE c0
    IN IF c # NULL
       THEN LET S1 == [S EXCEPT !.selmon = S.cl[c].mon]
                S2 == attachstack(detachstack(S1, c), c)
            IN [S2 EXCEPT !.mons[S2.selmon].sel = c, !.cl[c].isurgent = FALSE]
       ELSE [S EXCEPT !.mons[S.selmon].sel = NULL]

pop(S, c) == focus(attach(detach(S, c), c), c)

\* for(; c && (c->isfloating || !ISVISIBLE(c)); c = c->next), on a list
nexttiled(S, s) ==
    LET idx == {i \in DOMAIN s : ~S.cl[s[i]].isfloating /\ ISVISIBLE(S, s[i])}
    IN IF idx = {} THEN NULL ELSE s[Min(idx)]

\* the list that starts at c->next, for a c in list s
After(s, c) ==
    LET idx == {i \in DOMAIN s : s[i] = c}
    IN IF idx = {} THEN << >> ELSE SubSeq(s, Min(idx) + 1, Len(s))

\* the list from its head up to, not including, c
Before(s, c) ==
    LET idx == {i \in DOMAIN s : s[i] = c}
    IN IF idx = {} THEN s ELSE SubSeq(s, 1, Min(idx) - 1)

\* the last visible client of a list, or NULL
lastvisible(S, s) == firstvisible(S, Reverse(s))

\* focusstack that stops at the ends of the list
focusstack_nowrap(S, i) ==
    LET m == S.mons[S.selmon]
        c == IF i > 0
             THEN firstvisible(S, After(m.clients, m.sel))
             ELSE lastvisible(S, Before(m.clients, m.sel))
    IN IF m.sel = NULL THEN S
       ELSE IF c # NULL THEN focus(S, c) ELSE S

focusstack(S, i) ==
    LET m == S.mons[S.selmon]
        c == IF i > 0
             THEN LET n == firstvisible(S, After(m.clients, m.sel))
                  IN IF n # NULL THEN n ELSE firstvisible(S, m.clients)
             ELSE LET p == lastvisible(S, Before(m.clients, m.sel))
                  IN IF p # NULL THEN p
                     ELSE lastvisible(S, <<m.sel>> \o After(m.clients, m.sel))
    IN IF m.sel = NULL THEN S
       ELSE IF c # NULL THEN focus(S, c) ELSE S

focusmon(S, i) ==
    IF Len(S.mons) = 1 THEN S
    ELSE IF dirtomon(S, i) = S.selmon THEN S
    ELSE focus([S EXCEPT !.selmon = dirtomon(S, i)], NULL)

zoom(S) ==
    LET m == S.mons[S.selmon]
        c == m.sel
        first == nexttiled(S, m.clients)
    IN IF ltarrange(m) = "NULL" \/ (m.sel # NULL /\ S.cl[m.sel].isfloating)
       THEN S
       ELSE IF c = first
            THEN IF c = NULL \/ nexttiled(S, After(m.clients, c)) = NULL
                 THEN S
                 ELSE pop(S, nexttiled(S, After(m.clients, c)))
            ELSE IF c = NULL THEN segv(S) \* pop(NULL): detach reads c->mon
                 ELSE pop(S, c)

----------------------------------------------------------------------------
(* tags and views *)

\* view without seltags ^= 1: the new view overwrites the current slot
view_notoggle(S, ui) ==
    LET m == S.mons[S.selmon]
        S2 == IF (ui \cap TAGMASK) # {}
              THEN [S EXCEPT !.mons[S.selmon].tagset[m.seltags + 1] = ui \cap TAGMASK]
              ELSE S
    IN IF (ui \cap TAGMASK) = curtags(m) THEN S ELSE focus(S2, NULL)

\* view without the return for a mask that is the current view
view_nocompare(S, ui) ==
    LET m == S.mons[S.selmon]
        seltags == 1 - m.seltags
        S1 == [S EXCEPT !.mons[S.selmon].seltags = seltags]
        S2 == IF (ui \cap TAGMASK) # {}
              THEN [S1 EXCEPT !.mons[S.selmon].tagset[seltags + 1] = ui \cap TAGMASK]
              ELSE S1
    IN focus(S2, NULL)

\* view without the test if(arg->ui & TAGMASK): a zero mask is stored too
view_storezero(S, ui) ==
    LET m == S.mons[S.selmon]
        seltags == 1 - m.seltags
    IN IF (ui \cap TAGMASK) = curtags(m) THEN S
       ELSE focus([S EXCEPT !.mons[S.selmon].seltags = seltags,
                            !.mons[S.selmon].tagset[seltags + 1] = ui \cap TAGMASK], NULL)

view(S, ui) ==
    LET m == S.mons[S.selmon]
        seltags == 1 - m.seltags
        S1 == [S EXCEPT !.mons[S.selmon].seltags = seltags]
        S2 == IF (ui \cap TAGMASK) # {}
              THEN [S1 EXCEPT !.mons[S.selmon].tagset[seltags + 1] = ui \cap TAGMASK]
              ELSE S1
    IN IF (ui \cap TAGMASK) = curtags(m) THEN S ELSE focus(S2, NULL)

\* toggleview without the test if(newtagset)
toggleview_unguarded(S, ui) ==
    LET m == S.mons[S.selmon]
        newtagset == XorMask(curtags(m), ui \cap TAGMASK)
    IN focus([S EXCEPT !.mons[S.selmon].tagset[m.seltags + 1] = newtagset], NULL)

toggleview(S, ui) ==
    LET m == S.mons[S.selmon]
        newtagset == XorMask(curtags(m), ui \cap TAGMASK)
    IN IF newtagset # {}
       THEN focus([S EXCEPT !.mons[S.selmon].tagset[m.seltags + 1] = newtagset], NULL)
       ELSE S

\* tag that stores the mask without & TAGMASK
tag_nomask(S, ui) ==
    LET sel == S.mons[S.selmon].sel
    IN IF sel # NULL /\ (ui \cap TAGMASK) # {}
       THEN focus([S EXCEPT !.cl[sel].tags = ui], NULL)
       ELSE S

\* tag without the test of arg->ui & TAGMASK
tag_unguarded(S, ui) ==
    LET sel == S.mons[S.selmon].sel
    IN IF sel # NULL
       THEN focus([S EXCEPT !.cl[sel].tags = ui \cap TAGMASK], NULL)
       ELSE S

tag(S, ui) ==
    LET sel == S.mons[S.selmon].sel
    IN IF sel # NULL /\ (ui \cap TAGMASK) # {}
       THEN focus([S EXCEPT !.cl[sel].tags = ui \cap TAGMASK], NULL)
       ELSE S

\* toggletag that sets the bits of the mask instead of toggling them
toggletag_set(S, ui) ==
    LET sel == S.mons[S.selmon].sel
        newtags == S.cl[sel].tags \cup (ui \cap TAGMASK)
    IN IF sel = NULL THEN S
       ELSE IF newtags # {}
            THEN focus([S EXCEPT !.cl[sel].tags = newtags], NULL)
            ELSE S

toggletag(S, ui) ==
    LET sel == S.mons[S.selmon].sel
        newtags == XorMask(S.cl[sel].tags, ui \cap TAGMASK)
    IN IF sel = NULL THEN S
       ELSE IF newtags # {}
            THEN focus([S EXCEPT !.cl[sel].tags = newtags], NULL)
            ELSE S

\* sendmon that leaves the client on the stack of the monitor it came from
sendmon_keepstack(S, c, m) ==
    LET S1 == detach(S, c)
        S2 == [S1 EXCEPT !.cl[c].mon = m, !.cl[c].tags = curtags(S1.mons[m])]
    IN IF S.cl[c].mon = m THEN S
       ELSE focus(attachstack(attach(S2, c), c), NULL)

\* sendmon without c->tags = m->tagset[m->seltags]
sendmon_keeptags(S, c, m) ==
    LET S1 == detachstack(detach(S, c), c)
        S2 == [S1 EXCEPT !.cl[c].mon = m]
    IN IF S.cl[c].mon = m THEN S
       ELSE focus(attachstack(attach(S2, c), c), NULL)

sendmon(S, c, m) ==
    LET S1 == detachstack(detach(S, c), c)
        S2 == [S1 EXCEPT !.cl[c].mon = m, !.cl[c].tags = curtags(S1.mons[m])]
    IN IF S.cl[c].mon = m THEN S
       ELSE focus(attachstack(attach(S2, c), c), NULL)

tagmon(S, i) ==
    IF S.mons[S.selmon].sel = NULL \/ Len(S.mons) = 1 THEN S
    ELSE sendmon(S, S.mons[S.selmon].sel, dirtomon(S, i))

----------------------------------------------------------------------------
(* manage and unmanage *)

\* One step of the loop over rules[]: matched is the set of positions of the
\* rules whose class is a substring of the window's class (title and instance
\* are NULL in every rule of config.h).  m->num is the position of m, from 0.
RECURSIVE applyrule(_, _, _, _)
applyrule(S, c, i, matched) ==
    IF i > Len(rules) THEN c
    ELSE IF i \in matched
         THEN LET r == rules[i]
                  ms == {m \in DOMAIN S.mons : m - 1 = r.monitor}
                  c1 == [c EXCEPT !.isfloating = r.isfloating,
                                  !.tags = @ \cup r.tags]
                  c2 == IF ms # {} THEN [c1 EXCEPT !.mon = Min(ms)] ELSE c1
              IN applyrule(S, c2, i + 1, matched)
         ELSE applyrule(S, c, i + 1, matched)

applyrules(S, c, matched) ==
    LET c1 == applyrule(S, [c EXCEPT !.isfloating = FALSE, !.tags = {}], 1, matched)
        c2 == [c1 EXCEPT !.tags = curtags(S.mons[c1.mon])]
    IN [c2 EXCEPT !.tags = IF (c2.tags \cap TAGMASK) # {}
                           THEN c2.tags \cap TAGMASK
                           ELSE curtags(S.mons[c2.mon])]

\* What the X server reports of a window that asks to be mapped: trans is the
\* window of its WM_TRANSIENT_FOR hint (NULL when it has none), matched the
\* rules its class matches, dialog says that its _NET_WM_WINDOW_TYPE is the
\* dialog type.  Its size hints are not fixed (isfixed is False), its
\* _NET_WM_STATE is not fullscreen and its WM_HINTS carry no urgency flag.
WinAttrs ==
    [override_redirect : {FALSE}, trans : 0..MaxWin,
     matched : SUBSET (DOMAIN rules), dialog : BOOLEAN]
    \cup {[override_redirect |-> TRUE, trans |-> NULL, matched |-> {}, dialog |-> FALSE]}

isfixed == FALSE

manage(S, w, trans, matched, dialog) ==
    LET t == IF trans # NULL THEN wintoclient(S, trans) ELSE NULL
        c0 == IF t # NULL
              THEN [NoClient EXCEPT !.mon = S.cl[t].mon, !.tags = S.cl[t].tags]
              ELSE applyrules(S, [NoClient EXCEPT !.mon = S.selmon], matched)
        c1 == IF dialog THEN [c0 EXCEPT !.isfloating = TRUE] ELSE c0
        c2 == IF ~c1.isfloating
              THEN [c1 EXCEPT !.isfloating = (trans # NULL \/ isfixed)]
              ELSE c1
        S1 == [S EXCEPT !.cl[w] = c2]
        S2 == attachstack(attach(S1, w), w)
        S3 == [S2 EXCEPT !.mons[c2.mon].sel = w]
    IN focus(S3, NULL)

\* maprequest without the test of wintoclient
maprequest_again(S, w, wa) ==
    IF wa.override_redirect THEN S
    ELSE manage(S, w, wa.trans, wa.matched, wa.dialog)

maprequest(S, w, wa) ==
    IF wa.override_redirect THEN S
    ELSE IF wintoclient(S, w) = NULL
         THEN manage(S, w, wa.trans, wa.matched, wa.dialog)
         ELSE S

\* free(c) leaves no record of the client
unmanage(S, c) ==
    LET S1 == detachstack(detach(S, c), c)
        S2 == [S1 EXCEPT !.cl[c] = NoClient]
    IN focus(S2, NULL)

destroynotify(S, w) ==
    IF wintoclient(S, w) # NULL THEN unmanage(S, wintoclient(S, w)) ELSE S

\* unmapnotify that does not look at send_event
unmapnotify_always(S, w, send_event) ==
    IF wintoclient(S, w) # NULL THEN unmanage(S, wintoclient(S, w)) ELSE S

unmapnotify(S, w, send_event) ==
    IF wintoclient(S, w) # NULL
    THEN IF send_event THEN S ELSE unmanage(S, wintoclient(S, w))
    ELSE S

\* clientmessage that writes the tags of the client over the current view
clientmessage_sameslot(S, w) ==
    LET c == wintoclient(S, w)
        m == S.cl[c].mon
        S1 == IF ~ISVISIBLE(S, c)
              THEN [S EXCEPT !.mons[m].tagset[S.mons[m].seltags + 1] = S.cl[c].tags]
              ELSE S
    IN IF c = NULL THEN S ELSE pop(S1, c)

\* clientmessage with message_type _NET_ACTIVE_WINDOW
clientmessage(S, w) ==
    LET c == wintoclient(S, w)
        m == S.cl[c].mon
        seltags == 1 - S.mons[m].seltags
        S1 == IF ~ISVISIBLE(S, c)
              THEN [S EXCEPT !.mons[m].seltags = seltags,
                             !.mons[m].tagset[seltags + 1] = S.cl[c].tags]
              ELSE S
    IN IF c = NULL THEN S ELSE pop(S1, c)

\* enternotify for the window of client c, or (c = NULL) for the root window
\* or a bar window, with the pointer on monitor ptr
enternotify(S, c, ptr) ==
    LET m == IF c # NULL THEN S.cl[c].mon ELSE ptr
    IN IF m # S.selmon
       THEN focus([S EXCEPT !.selmon = m], c)
       ELSE IF c = NULL \/ c = S.mons[S.selmon].sel THEN S ELSE focus(S, c)

\* updatewmhints when XGetWMHints returns hints whose XUrgencyHint flag is
\* urgent; neverfocus only decides an X request
updatewmhints(S, c, urgent) ==
    IF c = S.mons[S.selmon].sel /\ urgent
    THEN S
    ELSE [S EXCEPT !.cl[c].isurgent = urgent]

\* propertynotify for a change (not a deletion) of the property atom of
\* window w, for the atoms WM_HINTS and WM_NAME
propertynotify(S, w, atom, urgent) ==
    LET c == wintoclient(S, w)
    IN IF c = NULL THEN S
       ELSE IF atom = "WM_HINTS" THEN updatewmhints(S, c, urgent)
       ELSE S

----------------------------------------------------------------------------
(* monitor hot-plug *)

\* while(m->clients) { ... } of updategeom: the clients of monitor m move to
\* the first monitor
RECURSIVE migrate(_, _)
migrate(S, m) ==
    IF S.mons[m].clients = << >> THEN S
    ELSE LET c == Head(S.mons[m].clients)
             S1 == [S EXCEPT !.mons[m].clients = Tail(@)]
             S2 == detachstack(S1, c)
             S3 == [S2 EXCEPT !.cl[c].mon = 1]
         IN migrate(attachstack(attach(S3, c), c), m)

\* cleanupmon(mon) for the last monitor of the list
cleanupmon(S) == [S EXCEPT !.mons = SubSeq(@, 1, Len(@) - 1)]

\* removemons without if(m == selmon) selmon = mons
RECURSIVE removemons_keepsel(_, _)
removemons_keepsel(S, nn) ==
    IF Len(S.mons) <= nn THEN S
    ELSE removemons_keepsel(cleanupmon(migrate(S, Len(S.mons))), nn)

\* for(i = nn; i < n; i++) of updategeom: the last monitor is removed, until
\* nn monitors are left
RECURSIVE removemons(_, _)
removemons(S, nn) ==
    IF Len(S.mons) <= nn THEN S
    ELSE LET m == Len(S.mons)
             S1 == migrate(S, m)
             S2 == IF m = S1.selmon THEN [S1 EXCEPT !.selmon = 1] ELSE S1
         IN removemons(cleanupmon(S2), nn)

RECURSIVE addmons(_, _)
addmons(S, nn) ==
    IF Len(S.mons) >= nn THEN S
    ELSE addmons([S EXCEPT !.mons = Append(@, createmon)], nn)

\* The flag dirty of updategeom with XINERAMA active: nn is the number of
\* unique screens, geomchanged says that the geometry of a surviving monitor
\* differs from its screen.  When monitors are removed only the loop that
\* moves their clients sets it.
dirty(S, nn, geomchanged) ==
    IF Len(S.mons) <= nn
    THEN Len(S.mons) < nn \/ geomchanged
    ELSE \E m \in (nn + 1)..Len(S.mons) : S.mons[m].clients # << >>

\* updategeom: ptr is the monitor wintomon(root) finds under the pointer.
\* The result is the pair of the new state and the flag dirty.
updategeom(S, nn, geomchanged, ptr) ==
    LET S1 == IF Len(S.mons) <= nn THEN addmons(S, nn) ELSE removemons(S, nn)
    IN IF dirty(S, nn, geomchanged)
       THEN << [S1 EXCEPT !.selmon = ptr], TRUE >>
       ELSE << S1, FALSE >>

\* configurenotify for the root window; rootchanged says that sw or sh differ
configurenotify(S, nn, geomchanged, rootchanged, ptr) ==
    LET r == updategeom(S, nn, geomchanged, ptr)
    IN IF r[2] \/ rootchanged THEN focus(r[1], NULL) ELSE r[1]

----------------------------------------------------------------------------
(* killclient *)

\* the windows whose WM_PROTOCOLS hold WM_DELETE_WINDOW
DeleteWindows == {1}

\* sendevent(c, wmatom[WMDelete]): the value it returns and the message
killclient(S) ==
    LET sel == S.mons[S.selmon].sel
    IN IF sel = NULL THEN S
       ELSE IF sel \in DeleteWindows
            THEN [S EXCEPT !.cl[sel].closing = "asked"]
            ELSE [S EXCEPT !.cl[sel].closing = "killed"]

----------------------------------------------------------------------------
(* shutdown *)

\* cleanup() up to its loop over the monitors
cleanupstart(S) ==
    LET S1 == view(S, AllBits)
    IN [S1 EXCEPT !.mons[S1.selmon].lt[S1.mons[S1.selmon].sellt + 1] = 0]

\* one turn of while(m->stack) unmanage(m->stack, False), for the first
\* monitor that still has a client
cleanupstep(S) ==
    LET m == Min({i \in DOMAIN S.mons : S.mons[i].stack # << >>})
    IN unmanage(S, Head(S.mons[m].stack))

\* for(m = mons; m; m = m->next) while(m->stack) unmanage(m->stack, False):
\* the states this loop goes through, the first one before its first turn
RECURSIVE cleanuploop(_)
cleanuploop(S) ==
    IF \A m \in DOMAIN S.mons : S.mons[m].stack = << >>
    THEN << S >>
    ELSE << S >> \o cleanuploop(cleanupstep(S))

\* cleanup(): after while(mons) cleanupmon(mons) no monitor is left, selmon
\* dangles and the process exits
cleanup(S) ==
    LET run == cleanuploop(cleanupstart(S))
    IN [run[Len(run)] EXCEPT !.mons = << >>, !.pc = "exit"]

----------------------------------------------------------------------------
(* the state machine: one action per event handler or key binding *)

\* the state after setup() on a display with 1..MaxMons screens and no window
Init ==
    /\ \E n \in 1..MaxMons : mons = [i \in 1..n |-> createmon]
    /\ selmon \in DOMAIN mons
    /\ cl = [w \in Win |-> NoClient]
    /\ pc = "run"
    /\ events = 0
    /\ grab = NoGrab

Becomes(S) ==
    /\ mons' = S.mons
    /\ selmon' = S.selmon
    /\ cl' = S.cl
    /\ pc' = S.pc
    /\ events' = events
    /\ grab' = grab

\* The guard of an action is the condition under which its handler gets
\* past the returns that come before its first write; the operator of the
\* handler has these returns too.

MapRequest(w, wa) ==
    /\ running
    /\ ~wa.override_redirect
    /\ wintoclient(World, w) = NULL
    /\ Becomes(maprequest(World, w, wa))

DestroyNotify(w) ==
    /\ running
    /\ wintoclient(World, w) # NULL
    /\ Becomes(destroynotify(World, w))

UnmapNotify(w, send_event) ==
    /\ running
    /\ wintoclient(World, w) # NULL
    /\ Becomes(unmapnotify(World, w, send_event))

ClientMessage(w) ==
    /\ running
    /\ wintoclient(World, w) # NULL
    /\ Becomes(clientmessage(World, w))

EnterNotify(c, ptr) ==
    /\ running
    /\ \/ (IF c # NULL THEN cl[c].mon ELSE ptr) # selmon
       \/ c # NULL /\ c # mons[selmon].sel
    /\ Becomes(enternotify(World, c, ptr))

PropertyNotify(w, atom, urgent) ==
    /\ running
    /\ wintoclient(World, w) # NULL
    /\ Becomes(propertynotify(World, w, atom, urgent))

ConfigureNotify(nn, geomchanged, rootchanged, ptr) ==
    /\ running
    /\ Becomes(configurenotify(World, nn, geomchanged, rootchanged, ptr))

View(ui) ==
    /\ running
    /\ (ui \cap TAGMASK) # curtags(mons[selmon])
    /\ Becomes(view(World, ui))

ToggleView(ui) ==
    /\ running
    /\ XorMask(curtags(mons[selmon]), ui \cap TAGMASK) # {}
    /\ Becomes(toggleview(World, ui))

Tag(ui) ==
    /\ running
    /\ mons[selmon].sel # NULL
    /\ (ui \cap TAGMASK) # {}
    /\ Becomes(tag(World, ui))

ToggleTag(ui) ==
    /\ running
    /\ mons[selmon].sel # NULL
    /\ XorMask(cl[mons[selmon].sel].tags, ui \cap TAGMASK) # {}
    /\ Becomes(toggletag(World, ui))

FocusStack(i) ==
    /\ running
    /\ mons[selmon].sel # NULL
    /\ Becomes(focusstack(World, i))

FocusMon(i) ==
    /\ running
    /\ Len(mons) > 1
    /\ dirtomon(World, i) # selmon
    /\ Becomes(focusmon(World, i))

TagMon(i) ==
    /\ running
    /\ mons[selmon].sel # NULL
    /\ Len(mons) > 1
    /\ Becomes(tagmon(World, i))

Zoom ==
    /\ running
    /\ ltarrange(mons[selmon]) # "NULL"
    /\ mons[selmon].sel # NULL => ~cl[mons[selmon].sel].isfloating
    /\ Becomes(zoom(World))

\* quit(): run() leaves its loop, main() calls cleanup()
Quit ==
    /\ running
    /\ Becomes(cleanup(World))

\* an application window without hints: no rule matches, nothing floats it
plain == [override_redirect |-> FALSE, trans |-> NULL, matched |-> {}, dialog |-> FALSE]

\* The attributes a MapRequest for w is tried with.  manage treats a
\* WM_TRANSIENT_FOR hint that names no client like one that names another
\* window without a client: one value stands for all of them there.
\* Window 1 is a plain window and the other windows are anything the server
\* can report: dwm.c never compares two window handles for order, so a state
\* and the state with the names of the windows exchanged behave alike, and
\* only the states in which every client floats are left out.
Requests(w) ==
    IF w = 1
    THEN {plain}
    ELSE {wa \in WinAttrs : wa.trans \in {NULL, w} \/ wintoclient(World, wa.trans) # NULL}

\* The ConfigureNotify events of the root window.  The handler reads
\* geomchanged only when the number of monitors stays, rootchanged only when
\* updategeom returns 0 and the pointer only when it returns 1: one event
\* stands for those it cannot tell apart.
RootEvents ==
    UNION {IF dirty(World, x[1], x[2])
           THEN {[nn |-> x[1], geomchanged |-> x[2], rootchanged |-> FALSE, ptr |-> p] :
                     p \in 1..x[1]}
           ELSE {[nn |-> x[1], geomchanged |-> x[2], rootchanged |-> r, ptr |-> 1] :
                     r \in BOOLEAN} :
           x \in {y \in (1..MaxMons) \X BOOLEAN : y[1] # Len(mons) => ~y[2]}}

\* The EnterNotify events: for the window of a visible client, or for the
\* root window with the pointer on one of the monitors
Crossings ==
    {[c |-> c, ptr |-> 1] : c \in {w \in Win : wintoclient(World, w) # NULL /\ ISVISIBLE(World, w)}}
    \cup {[c |-> NULL, ptr |-> p] : p \in DOMAIN mons}

Next ==
    \/ \E w \in Win : \E wa \in Requests(w) : MapRequest(w, wa)
    \/ \E w \in Win : DestroyNotify(w)
    \/ \E w \in Win, se \in BOOLEAN : UnmapNotify(w, se)
    \/ \E w \in Win : ClientMessage(w)
    \/ \E e \in Crossings : EnterNotify(e.c, e.ptr)
    \/ \E e \in RootEvents :
           ConfigureNotify(e.nn, e.geomchanged, e.rootchanged, e.ptr)
    \/ \E ui \in ViewMasks : View(ui)
    \/ \E ui \in TagMasks : ToggleView(ui)
    \/ \E ui \in TagKeyMasks : Tag(ui)
    \/ \E ui \in TagMasks : ToggleTag(ui)
    \/ \E i \in {-1, 1} : FocusStack(i)
    \/ \E i \in {-1, 1} : FocusMon(i)
    \/ \E i \in {-1, 1} : TagMon(i)
    \/ Zoom
    \/ Quit

Spec == Init /\ [][Next]_vars

----------------------------------------------------------------------------
(* the focus manager with more windows: the monitors and their views are
   those of setup(), windows are mapped without hints, and the events are the
   ones that move the selection or reorder the lists *)

MaxFocusWin == 3
FocusWin == 1..MaxFocusWin

InitFocus ==
    /\ \E n \in 1..MaxMons : mons = [i \in 1..n |-> createmon]
    /\ selmon \in DOMAIN mons
    /\ cl = [w \in FocusWin |-> NoClient]
    /\ pc = "run"
    /\ events = 0
    /\ grab = NoGrab

\* The EnterNotify events for the windows of the visible clients
FocusCrossings ==
    {w \in FocusWin : wintoclient(World, w) # NULL /\ ISVISIBLE(World, w)}

NextFocus ==
    \/ \E w \in FocusWin : MapRequest(w, plain)
    \/ \E w \in FocusWin : ClientMessage(w)
    \/ \E c \in FocusCrossings : EnterNotify(c, 1)
    \/ \E w \in FocusWin, urgent \in BOOLEAN : PropertyNotify(w, "WM_HINTS", urgent)
    \/ \E ui \in TagMasks : Tag(ui)
    \/ \E i \in {-1, 1} : FocusStack(i)
    \/ \E i \in {-1, 1} : FocusMon(i)
    \/ \E i \in {-1, 1} : TagMon(i)
    \/ Zoom

SpecFocus == InitFocus /\ [][NextFocus]_vars

----------------------------------------------------------------------------
(* closing windows: the windows are mapped without hints; a window that got
   WM_DELETE_WINDOW never closes, a window that was killed is destroyed by
   the server, which sends the DestroyNotify *)

KillClient ==
    /\ running
    /\ mons[selmon].sel # NULL
    /\ Becomes(killclient(World))

\* the X server does the XKillClient: the window is destroyed and its
\* DestroyNotify is in the queue of dwm.  killclient waits for this in its
\* XSync; here the step of the server is a step of its own
ServerKills(w) ==
    /\ cl[w].closing = "killed"
    /\ Becomes([World EXCEPT !.cl[w].closing = "destroyed"])

Destroyed(w) ==
    /\ cl[w].closing = "destroyed"
    /\ DestroyNotify(w)

NextKill ==
    \/ \E w \in Win : MapRequest(w, plain)
    \/ KillClient
    \/ \E w \in Win : ServerKills(w)
    \/ \E w \in Win : Destroyed(w)
    \/ \E ui \in TagMasks : View(ui)
    \/ \E i \in {-1, 1} : FocusStack(i)
    \/ \E i \in {-1, 1} : FocusMon(i)
    \/ \E i \in {-1, 1} : TagMon(i)

\* The server does every XKillClient that it is sent, and run() handles the
\* DestroyNotify that follows: no window stays destroyed and managed for
\* ever.  The second conjunct is weak fairness of Destroyed(w), which is
\* enabled exactly while window w is destroyed.
SpecKill ==
    /\ Init /\ [][NextKill]_vars
    /\ \A w \in Win : WF_vars(ServerKills(w))
    /\ \A w \in Win : []<>(cl[w].closing # "destroyed")

----------------------------------------------------------------------------
(* geometry: the rectangles of monitors and clients.  A Monitor or a Client
   that carries geometry is its record above with the fields of this section
   added; the operators above leave these fields as they are. *)

\* the bar height bh = fnt->h + 2 that setup() computes from the font
bh == 4
\* config.h
borderpx == 1
resizehints == TRUE
\* mfact of config.h, in hundredths
mfact == 55
nmaster == 1

MAX(a, b) == IF a > b THEN a ELSE b
MIN(a, b) == IF a < b THEN a ELSE b
WIDTH(C) == C.w + 2 * C.bw
HEIGHT(C) == C.h + 2 * C.bw

\* a % b of C for b > 0: the remainder has the sign of a
Rem(a, b) == IF a >= 0 THEN a % b ELSE -((-a) % b)

\* the record a with the fields of b added or replaced
Merge(a, b) ==
    [f \in DOMAIN a \cup DOMAIN b |-> IF f \in DOMAIN b THEN b[f] ELSE a[f]]

\* updatebarpos for a monitor (showbar and topbar are True in config.h)
updatebarpos(M) ==
    [M EXCEPT !.wy = M.my + bh, !.wh = M.mh - bh, !.by = M.my]

\* createmon and the assignments of updategeom for a new monitor whose
\* Xinerama screen is the rectangle (x_org, y_org, width, height)
newmon(x_org, y_org, width, height) ==
    updatebarpos(Merge(createmon,
        [mfact |-> mfact, nmaster |-> nmaster,
         mx |-> x_org, my |-> y_org, mw |-> width, mh |-> height,
         wx |-> x_org, wy |-> y_org, ww |-> width, wh |-> height, by |-> 0]))

\* sw and sh: the screen is the bounding box of its monitors
sw(S) == LET r == {S.mons[m].mx + S.mons[m].mw : m \in DOMAIN S.mons}
         IN CHOOSE x \in r : \A y \in r : y <= x
sh(S) == LET r == {S.mons[m].my + S.mons[m].mh : m \in DOMAIN S.mons}
         IN CHOOSE x \in r : \A y \in r : y <= x

\* The WM_NORMAL_HINTS of a window: flags is the set of the flags that are
\* set.  No window sets PAspect: mina and maxa are 0 and have no field.
NoHints ==
    [flags |-> {}, base_width |-> 0, base_height |-> 0, min_width |-> 0,
     min_height |-> 0, width_inc |-> 0, height_inc |-> 0, max_width |-> 0,
     max_height |-> 0]

\* updatesizehints for the client record C and the hints size; isfixed is
\* False for the hints of SizeHints
updatesizehints(C, size) ==
    LET has(f) == f \in size.flags
    IN Merge(C,
        [basew |-> IF has("PBaseSize") THEN size.base_width
                   ELSE IF has("PMinSize") THEN size.min_width ELSE 0,
         baseh |-> IF has("PBaseSize") THEN size.base_height
                   ELSE IF has("PMinSize") THEN size.min_height ELSE 0,
         incw |-> IF has("PResizeInc") THEN size.width_inc ELSE 0,
         inch |-> IF has("PResizeInc") THEN size.height_inc ELSE 0,
         maxw |-> IF has("PMaxSize") THEN size.max_width ELSE 0,
         maxh |-> IF has("PMaxSize") THEN size.max_height ELSE 0,
         minw |-> IF has("PMinSize") THEN size.min_width
                  ELSE IF has("PBaseSize") THEN size.base_width ELSE 0,
         minh |-> IF has("PMinSize") THEN size.min_height
                  ELSE IF has("PBaseSize") THEN size.base_height ELSE 0])

\* The steps of applysizehints(c, &x, &y, &w, &h, interact) follow, in
\* their order.

\* if(*x > sw) ... and if(*y > sh) ..., or if(*x >= m->wx + m->ww) ... and
\* if(*y >= m->wy + m->wh) ...: lim is sw or sh, org and len are wx and ww
\* or wy and wh, size is WIDTH(c) or HEIGHT(c)
hints_far(v, interact, lim, org, len, size) ==
    IF interact
    THEN IF v > lim THEN lim - size ELSE v
    ELSE IF v >= org + len THEN org + len - size ELSE v

\* if(*x + *w + 2 * c->bw < 0) ... and its like for y, or
\* if(*x + *w + 2 * c->bw <= m->wx) ... and its like for y
hints_near(v, d, bw, interact, org) ==
    IF interact
    THEN IF v + d + 2 * bw < 0 THEN 0 ELSE v
    ELSE IF v + d + 2 * bw <= org THEN org ELSE v

\* if(*h < bh) *h = bh; if(*w < bh) *w = bh
hints_bar(d) == IF d < bh THEN bh ELSE d

\* if(c->incw) *w -= *w % c->incw, and its like for h
hints_inc(d, inc) == IF inc # 0 THEN d - Rem(d, inc) ELSE d

\* if(c->maxw) *w = MIN(*w, c->maxw), and its like for h
hints_max(d, max) == IF max # 0 THEN MIN(d, max) ELSE d

\* The size hints applied to a dimension d that is at least bh.  The base
\* dimension is taken off before the aspect limits or after them; there
\* are no aspect limits.
hints_dim(d, base, inc, min, max) ==
    hints_max(MAX(hints_inc(d - base, inc) + base, min), max)

\* if(resizehints || c->isfloating || !c->mon->lt[c->mon->sellt]->arrange)
hinted(C, m) == resizehints \/ C.isfloating \/ ltarrange(m) = "NULL"

\* return *x != c->x || *y != c->y || *w != c->w || *h != c->h
hints_return(C, x, y, w, h) ==
    [x |-> x, y |-> y, w |-> w, h |-> h,
     changed |-> x # C.x \/ y # C.y \/ w # C.w \/ h # C.h]

\* applysizehints(c, &x, &y, &w, &h, interact): the rectangle it leaves in
\* x, y, w, h and the value it returns
applysizehints(S, c, x, y, w, h, interact) ==
    LET C == S.cl[c]
        m == S.mons[C.mon]
    IN hints_return(C,
           hints_near(hints_far(x, interact, sw(S), m.wx, m.ww, WIDTH(C)),
                      MAX(1, w), C.bw, interact, m.wx),
           hints_near(hints_far(y, interact, sh(S), m.wy, m.wh, HEIGHT(C)),
                      MAX(1, h), C.bw, interact, m.wy),
           IF hinted(C, m)
           THEN hints_dim(hints_bar(MAX(1, w)), C.basew, C.incw, C.minw, C.maxw)
           ELSE hints_bar(MAX(1, w)),
           IF hinted(C, m)
           THEN hints_dim(hints_bar(MAX(1, h)), C.baseh, C.inch, C.minh, C.maxh)
           ELSE hints_bar(MAX(1, h)))

resizeclient(S, c, x, y, w, h) ==
    [S EXCEPT !.cl[c].oldx = S.cl[c].x, !.cl[c].x = x,
              !.cl[c].oldy = S.cl[c].y, !.cl[c].y = y,
              !.cl[c].oldw = S.cl[c].w, !.cl[c].w = w,
              !.cl[c].oldh = S.cl[c].h, !.cl[c].h = h,
              !.cl[c].winx = x, !.cl[c].winy = y]

\* if(applysizehints(...)) resizeclient(c, x, y, w, h), for the result r of
\* applysizehints
resize_if(S, c, r) ==
    IF r.changed THEN resizeclient(S, c, r.x, r.y, r.w, r.h) ELSE S

resize(S, c, x, y, w, h, interact) ==
    resize_if(S, c, applysizehints(S, c, x, y, w, h, interact))

\* the clients nexttiled walks through: the visible clients of the list
\* that do not float
tiled(S, m) ==
    SelectSeq(S.mons[m].clients, LAMBDA c : ~S.cl[c].isfloating /\ ISVISIBLE(S, c))

INT_MAX == 2147483647

\* (m->wh - my) / k of tile as the int that is passed on: the operands are
\* unsigned int, so that a negative difference d wraps to d + 2^32 before it
\* is divided, and the quotient wraps back when it is converted to int
udiv(d, k) ==
    IF d >= 0 THEN d \div k
    ELSE IF k = 1 THEN d
    ELSE 2 * (INT_MAX \div k) + ((2 * (INT_MAX % k) + 2 + d) \div k)

\* the loop of tile over the tiled clients that are left, with its
\* counters; tile_master and tile_stack are the two branches of its body
\* after the resize of the first client left, which gave the state S1
RECURSIVE tileloop(_, _, _, _, _, _, _, _)

\* my += HEIGHT(c)
tile_master(S1, m, left, i, n, mw, my, ty) ==
    tileloop(S1, m, Tail(left), i + 1, n, mw, my + HEIGHT(S1.cl[Head(left)]), ty)

\* ty += HEIGHT(c)
tile_stack(S1, m, left, i, n, mw, my, ty) ==
    tileloop(S1, m, Tail(left), i + 1, n, mw, my, ty + HEIGHT(S1.cl[Head(left)]))

tileloop(S, m, left, i, n, mw, my, ty) ==
    IF left = << >> THEN S
    ELSE LET M == S.mons[m]
             c == Head(left)
             bw == S.cl[c].bw
         IN IF i < M.nmaster
            THEN tile_master(
                     resize(S, c, M.wx, M.wy + my, mw - 2 * bw,
                            udiv(M.wh - my, MIN(n, M.nmaster) - i) - 2 * bw, FALSE),
                     m, left, i, n, mw, my, ty)
            ELSE tile_stack(
                     resize(S, c, M.wx + mw, M.wy + ty, M.ww - mw - 2 * bw,
                            udiv(M.wh - ty, n - i) - 2 * bw, FALSE),
                     m, left, i, n, mw, my, ty)

tile(S, m) ==
    LET M == S.mons[m]
        n == Len(tiled(S, m))
        mw == IF n > M.nmaster
              THEN IF M.nmaster # 0 THEN (M.ww * M.mfact) \div 100 ELSE 0
              ELSE M.ww
    IN IF n = 0 THEN S ELSE tileloop(S, m, tiled(S, m), 0, n, mw, 0, 0)

RECURSIVE monocleloop(_, _, _)
monocleloop(S, m, left) ==
    IF left = << >> THEN S
    ELSE LET M == S.mons[m]
             c == Head(left)
         IN monocleloop(resize(S, c, M.wx, M.wy, M.ww - 2 * S.cl[c].bw,
                               M.wh - 2 * S.cl[c].bw, FALSE),
                        m, Tail(left))

\* monocle that does not skip the floating clients
monocle_all(S, m) ==
    monocleloop(S, m, SelectSeq(S.mons[m].clients, LAMBDA c : ISVISIBLE(S, c)))

monocle(S, m) == monocleloop(S, m, tiled(S, m))

----------------------------------------------------------------------------
(* the layout functions as functions of a monitor and its clients: Init
   draws a monitor with its clients as manage leaves them under the floating
   layout, and the actions apply tile and monocle *)

MaxTiled == 3
MaxMaster == 2
\* the sizes (mw, mh) of the monitor: with the bar taken off, the window
\* area is 10 or 21 high, less or more than two tiles of the least height
LayoutWidths == {20, 21}
LayoutHeights == {bh + 10, bh + 21}

\* the WM_NORMAL_HINTS the windows choose from: none, a resize increment
\* with a maximum size that is not a multiple of it, or a minimum size
SizeHints ==
    {NoHints,
     [NoHints EXCEPT !.flags = {"PResizeInc", "PMaxSize"}, !.width_inc = 3,
          !.height_inc = 3, !.max_width = 7, !.max_height = 7],
     [NoHints EXCEPT !.flags = {"PMinSize"}, !.min_width = 6, !.min_height = 6]}

\* the Client that manage leaves for a window without a transient parent
\* that asked for the rectangle (0, bh, 6, 6) on the first monitor: tags are
\* the view {0} or, retagged since, {1}; isfloating is set by a rule or by
\* togglefloating.  The monitor shows the floating layout, sellt = 1, as
\* after setlayout(&layouts[1])
LayoutClient(tags, isfloating, size) ==
    updatesizehints(
        Merge(NoClient,
            [mon |-> 1, tags |-> tags, isfloating |-> isfloating,
             x |-> 0, y |-> bh, w |-> 6, h |-> 6,
             oldx |-> 0, oldy |-> bh, oldw |-> 6, oldh |-> 6,
             bw |-> borderpx, oldbw |-> 0,
             isfullscreen |-> FALSE, oldstate |-> FALSE,
             winx |-> IF tags = {0} THEN 0 ELSE (6 + 2 * borderpx) * (-2),
             winy |-> bh]),
        size)

\* what a client is to a layout: tiled and visible, floating and visible,
\* or not in the view
LayoutKinds == {<<{0}, FALSE>>, <<{0}, TRUE>>, <<{1}, FALSE>>}

InitLayout ==
    \E W \in LayoutWidths, H \in LayoutHeights, nm \in 0..MaxMaster, n \in 1..MaxTiled :
        \E kind \in [1..n -> LayoutKinds], size \in [1..n -> SizeHints] :
            LET list == [i \in 1..n |-> n + 1 - i]
                C == [w \in 1..n |-> LayoutClient(kind[w][1], kind[w][2], size[w])]
                vis == {i \in 1..n : kind[list[i]][1] = {0}}
            IN /\ cl = C
               /\ mons = << [newmon(0, 0, W, H) EXCEPT
                                 !.nmaster = nm, !.sellt = 1,
                                 !.clients = list, !.stack = list,
                                 !.sel = IF vis = {} THEN NULL ELSE list[Min(vis)]] >>
               /\ selmon = 1
               /\ pc = "run"
               /\ events = 0
               /\ grab = NoGrab

Tile == running /\ Becomes(tile(World, 1))

Monocle == running /\ Becomes(monocle(World, 1))

NextLayout == Tile \/ Monocle

SpecLayout == InitLayout /\ [][NextLayout]_vars

----------------------------------------------------------------------------
(* the handlers with the geometry of the clients: what arrange, the
   fullscreen state and the requests of a window do to x, y, w, h and bw *)

\* XMoveWindow(dpy, c->win, x, y)
XMoveWindow(S, c, x, y) == [S EXCEPT !.cl[c].winx = x, !.cl[c].winy = y]

\* showhide(c) for the list that starts at c: a visible client is moved to
\* (c->x, c->y) and a hidden one out of the screen by an X request; the
\* Client of a hidden client is not written
RECURSIVE showhide(_, _)
showhide(S, left) ==
    IF left = << >> THEN S
    ELSE LET c == Head(left)
             C == S.cl[c]
             S1 == XMoveWindow(S, c, C.x, C.y)
         IN IF ISVISIBLE(S, c)
            THEN showhide(
                     IF (ltarrange(S.mons[C.mon]) = "NULL" \/ C.isfloating)
                        /\ ~C.isfullscreen
                     THEN resize(S1, c, C.x, C.y, C.w, C.h, FALSE)
                     ELSE S1,
                     Tail(left))
            ELSE XMoveWindow(showhide(S, Tail(left)), c, WIDTH(C) * (-2), C.y)

arrangemon(S, m) ==
    IF ltarrange(S.mons[m]) = "tile" THEN tile(S, m)
    ELSE IF ltarrange(S.mons[m]) = "monocle" THEN monocle(S, m)
    ELSE S

\* for(m = mons; m; m = m->next) showhide(m->stack), from monitor i on
RECURSIVE showhideall(_, _)
showhideall(S, i) ==
    IF i > Len(S.mons) THEN S
    ELSE showhideall(showhide(S, S.mons[i].stack), i + 1)

\* for(m = mons; m; m = m->next) arrangemon(m), from monitor i on
RECURSIVE arrangeall(_, _)
arrangeall(S, i) ==
    IF i > Len(S.mons) THEN S
    ELSE arrangeall(arrangemon(S, i), i + 1)

\* arrange(m); restack only sends X requests
arrange(S, m) ==
    IF m # NULL
    THEN arrangemon(showhide(S, S.mons[m].stack), m)
    ELSE arrangeall(showhideall(S, 1), 1)

setfullscreen(S, c, fullscreen) ==
    LET C == S.cl[c]
        M == S.mons[C.mon]
    IN IF fullscreen
       THEN resizeclient(
                [S EXCEPT !.cl[c].isfullscreen = TRUE,
                          !.cl[c].oldstate = C.isfloating,
                          !.cl[c].oldbw = C.bw,
                          !.cl[c].bw = 0,
                          !.cl[c].isfloating = TRUE],
                c, M.mx, M.my, M.mw, M.mh)
       ELSE arrange(
                resizeclient(
                    [S EXCEPT !.cl[c].isfullscreen = FALSE,
                              !.cl[c].isfloating = C.oldstate,
                              !.cl[c].bw = C.oldbw,
                              !.cl[c].x = C.oldx, !.cl[c].y = C.oldy,
                              !.cl[c].w = C.oldw, !.cl[c].h = C.oldh],
                    c, C.oldx, C.oldy, C.oldw, C.oldh),
                C.mon)

\* updatewindowtype when _NET_WM_STATE is (state) or is not the fullscreen
\* atom and _NET_WM_WINDOW_TYPE is (wtype) or is not the dialog type
updatewindowtype(S, c, state, wtype) ==
    LET S1 == IF state THEN setfullscreen(S, c, TRUE) ELSE S
    IN IF wtype THEN [S1 EXCEPT !.cl[c].isfloating = TRUE] ELSE S1

\* propertynotify for a change of the property _NET_WM_WINDOW_TYPE of
\* window w
propertynotify_windowtype(S, w, state, wtype) ==
    LET c == wintoclient(S, w)
    IN IF c = NULL THEN S ELSE updatewindowtype(S, c, state, wtype)

\* clientmessage with message_type _NET_WM_STATE that names the fullscreen
\* atom; action is data.l[0]: 0 remove, 1 add, 2 toggle
clientmessage_state(S, w, action) ==
    LET c == wintoclient(S, w)
    IN IF c = NULL THEN S
       ELSE setfullscreen(S, c, action = 1 \/ (action = 2 /\ ~S.cl[c].isfullscreen))

\* pop, with the arrange(c->mon) that ends it
pop_arrange(S, c) == arrange(pop(S, c), S.cl[c].mon)

\* zoom that pops the selected client also when it is the first tiled one
zoom_self(S) ==
    LET m == S.mons[S.selmon]
    IN IF ltarrange(m) = "NULL" \/ m.sel = NULL \/ S.cl[m.sel].isfloating
       THEN S
       ELSE pop_arrange(S, m.sel)

\* zoom, with the arrange that ends pop
zoom_arrange(S) ==
    LET m == S.mons[S.selmon]
        c == m.sel
        first == nexttiled(S, m.clients)
    IN IF ltarrange(m) = "NULL" \/ (m.sel # NULL /\ S.cl[m.sel].isfloating)
       THEN S
       ELSE IF c = first
            THEN IF c = NULL \/ nexttiled(S, After(m.clients, c)) = NULL
                 THEN S
                 ELSE pop_arrange(S, nexttiled(S, After(m.clients, c)))
            ELSE IF c = NULL THEN segv(S)
                 ELSE pop_arrange(S, c)

\* clientmessage with message_type _NET_ACTIVE_WINDOW
clientmessage_active(S, w) ==
    LET c == wintoclient(S, w)
        m == S.cl[c].mon
        seltags == 1 - S.mons[m].seltags
        S1 == IF ~ISVISIBLE(S, c)
              THEN [S EXCEPT !.mons[m].seltags = seltags,
                             !.mons[m].tagset[seltags + 1] = S.cl[c].tags]
              ELSE S
    IN IF c = NULL THEN S ELSE pop_arrange(S1, c)

\* configurerequest for window w; ev.value_mask is the set of the CW flags
\* of the request
configurerequest(S, w, ev) ==
    LET c == wintoclient(S, w)
        C == S.cl[c]
        m == S.mons[C.mon]
        has(f) == f \in ev.value_mask
        C1 == IF has("CWX") THEN [C EXCEPT !.oldx = C.x, !.x = m.mx + ev.x] ELSE C
        C2 == IF has("CWY") THEN [C1 EXCEPT !.oldy = C.y, !.y = m.my + ev.y] ELSE C1
        C3 == IF has("CWWidth") THEN [C2 EXCEPT !.oldw = C.w, !.w = ev.width] ELSE C2
        C4 == IF has("CWHeight") THEN [C3 EXCEPT !.oldh = C.h, !.h = ev.height] ELSE C3
        C5 == IF C4.x + C4.w > m.mx + m.mw /\ C4.isfloating
              THEN [C4 EXCEPT !.x = m.mx + (m.mw \div 2 - WIDTH(C4) \div 2)]
              ELSE C4
        C6 == IF C5.y + C5.h > m.my + m.mh /\ C5.isfloating
              THEN [C5 EXCEPT !.y = m.my + (m.mh \div 2 - HEIGHT(C5) \div 2)]
              ELSE C5
    IN IF c = NULL THEN S
       ELSE IF has("CWBorderWidth")
            THEN [S EXCEPT !.cl[c].bw = ev.border_width]
            ELSE IF C.isfloating \/ ltarrange(S.mons[S.selmon]) = "NULL"
                 THEN IF ISVISIBLE(S, c)
                      THEN XMoveWindow([S EXCEPT !.cl[c] = C6], c, C6.x, C6.y)
                      ELSE [S EXCEPT !.cl[c] = C6]
                 ELSE S

togglefloating(S) ==
    LET sel == S.mons[S.selmon].sel
        C == S.cl[sel]
        S1 == [S EXCEPT !.cl[sel].isfloating = ~C.isfloating \/ isfixed]
    IN IF sel = NULL THEN S
       ELSE IF C.isfullscreen THEN S
       ELSE arrange(IF S1.cl[sel].isfloating
                    THEN resize(S1, sel, C.x, C.y, C.w, C.h, FALSE)
                    ELSE S1,
                    S.selmon)

\* setmfact that sets the nearest of 0.1 and 0.9 instead of returning
setmfact_clamp(S, f) ==
    LET m == S.mons[S.selmon]
        g == IF f < 100 THEN f + m.mfact ELSE f - 100
        h == IF g < 10 THEN 10 ELSE IF g > 90 THEN 90 ELSE g
    IN IF ltarrange(m) = "NULL" THEN S
       ELSE arrange([S EXCEPT !.mons[S.selmon].mfact = h], S.selmon)

\* setmfact(arg): f is arg->f in hundredths, below 100 a step and from 100
\* on 1.0 plus the fraction to set
setmfact(S, f) ==
    LET m == S.mons[S.selmon]
        g == IF f < 100 THEN f + m.mfact ELSE f - 100
    IN IF ltarrange(m) = "NULL" THEN S
       ELSE IF g < 10 \/ g > 90 THEN S
       ELSE arrange([S EXCEPT !.mons[S.selmon].mfact = g], S.selmon)

\* setlayout that stores the layout in the current slot, without sellt ^= 1
setlayout_sameslot(S, v) ==
    LET m == S.mons[S.selmon]
        sellt == IF v = NULL THEN 1 - m.sellt ELSE m.sellt
        S1 == [S EXCEPT !.mons[S.selmon].sellt = sellt]
        S2 == IF v # NULL THEN [S1 EXCEPT !.mons[S.selmon].lt[sellt + 1] = v] ELSE S1
    IN IF m.sel # NULL THEN arrange(S2, S.selmon) ELSE S2

\* setlayout(arg): v is arg->v, the position of a layout in layouts[] or
\* NULL
setlayout(S, v) ==
    LET m == S.mons[S.selmon]
        sellt == IF v = NULL \/ v # m.lt[m.sellt + 1] THEN 1 - m.sellt ELSE m.sellt
        S1 == [S EXCEPT !.mons[S.selmon].sellt = sellt]
        S2 == IF v # NULL THEN [S1 EXCEPT !.mons[S.selmon].lt[sellt + 1] = v] ELSE S1
    IN IF m.sel # NULL THEN arrange(S2, S.selmon) ELSE S2

\* view, with the arrange(selmon) that ends it
view_arrange(S, ui) ==
    IF (ui \cap TAGMASK) = curtags(S.mons[S.selmon]) THEN S
    ELSE arrange(view(S, ui), S.selmon)

\* sendmon, with the arrange(NULL) that ends it
sendmon_arrange(S, c, m) ==
    IF S.cl[c].mon = m THEN S ELSE arrange(sendmon(S, c, m), NULL)

tagmon_arrange(S, i) ==
    IF S.mons[S.selmon].sel = NULL \/ Len(S.mons) = 1 THEN S
    ELSE sendmon_arrange(S, S.mons[S.selmon].sel, dirtomon(S, i))

\* manage(w, wa) for a window without WM_TRANSIENT_FOR hint whose class
\* matches no rule: wa has the rectangle and the border width of the
\* window, wa.state and wa.wtype say that its _NET_WM_STATE is the
\* fullscreen atom and its _NET_WM_WINDOW_TYPE the dialog type, wa.size is
\* its WM_NORMAL_HINTS.  The steps of manage follow, in their order.

\* c = calloc(...), c->mon = selmon, applyrules(c) and the geometry of wa;
\* bw is 0 until borderpx is assigned.  winx and winy are no fields of the
\* Client: they are where the X server has the window, which the requests
\* XMoveWindow, XMoveResizeWindow and XConfigureWindow set
manage_alloc(S, wa) ==
    applyrules(S,
        Merge(NoClient,
            [mon |-> S.selmon,
             x |-> wa.x, oldx |-> wa.x, y |-> wa.y, oldy |-> wa.y,
             w |-> wa.width, oldw |-> wa.width,
             h |-> wa.height, oldh |-> wa.height,
             oldbw |-> wa.border_width, bw |-> 0,
             isfullscreen |-> FALSE, oldstate |-> FALSE,
             winx |-> wa.x, winy |-> wa.y]),
        {})

\* if(c->x + WIDTH(c) > c->mon->mx + c->mon->mw) ...
manage_right(C, m) ==
    IF C.x + WIDTH(C) > m.mx + m.mw THEN [C EXCEPT !.x = m.mx + m.mw - WIDTH(C)] ELSE C

\* if(c->y + HEIGHT(c) > c->mon->my + c->mon->mh) ...
manage_bottom(C, m) ==
    IF C.y + HEIGHT(C) > m.my + m.mh THEN [C EXCEPT !.y = m.my + m.mh - HEIGHT(C)] ELSE C

\* c->x = MAX(c->x, c->mon->mx)
manage_left(C, m) == [C EXCEPT !.x = MAX(C.x, m.mx)]

\* c->y = MAX(c->y, ...) under the bar, and c->bw = borderpx
manage_top(C, m) ==
    [C EXCEPT !.y = MAX(C.y,
                        IF /\ m.by = m.my
                           /\ C.x + (C.w \div 2) >= m.wx
                           /\ C.x + (C.w \div 2) < m.wx + m.ww
                        THEN bh ELSE m.my),
              !.bw = borderpx]

manage_geometry(C, m) ==
    manage_top(manage_left(manage_bottom(manage_right(C, m), m), m), m)

\* updatesizehints(c), and isfloating = oldstate = trans != None || isfixed
\* for a client that does not float
manage_hints(S, w, size) ==
    LET C == updatesizehints(S.cl[w], size)
    IN [S EXCEPT !.cl[w] = IF ~C.isfloating
                            THEN [C EXCEPT !.isfloating = isfixed, !.oldstate = isfixed]
                            ELSE C]

\* attach(c), attachstack(c), XMoveResizeWindow(c->x + 2 * sw, c->y, ...),
\* c->mon->sel = c, arrange(c->mon), focus(NULL)
manage_attach(S, w) ==
    focus(arrange([XMoveWindow(attachstack(attach(S, w), w), w,
                               S.cl[w].x + 2 * sw(S), S.cl[w].y)
                       EXCEPT !.mons[S.cl[w].mon].sel = w],
                  S.cl[w].mon),
          NULL)

manage_arrange(S, w, wa) ==
    manage_attach(
        manage_hints(
            updatewindowtype(
                [S EXCEPT !.cl[w] = manage_geometry(manage_alloc(S, wa), S.mons[S.selmon])],
                w, wa.state, wa.wtype),
            w, wa.size),
        w)

maprequest_arrange(S, w, wa) ==
    IF wintoclient(S, w) = NULL THEN manage_arrange(S, w, wa) ELSE S

\* unmanage, with the arrange(m) that ends it
unmanage_arrange(S, c) == arrange(unmanage(S, c), S.cl[c].mon)

\* updategeom with XINERAMA active for as many unique screens as there are
\* monitors: the monitor whose rectangle differs from its screen takes it
updategeom_screens(S, unique) ==
    [S EXCEPT !.mons =
        [i \in DOMAIN S.mons |->
            LET M == S.mons[i]
                u == unique[i]
            IN IF u.x_org # M.mx \/ u.y_org # M.my \/ u.width # M.mw \/ u.height # M.mh
               THEN updatebarpos([M EXCEPT !.mx = u.x_org, !.wx = u.x_org,
                                           !.my = u.y_org, !.wy = u.y_org,
                                           !.mw = u.width, !.ww = u.width,
                                           !.mh = u.height, !.wh = u.height])
               ELSE M]]

\* configurenotify for the root window when the screens are unique; sw and
\* sh change only when a screen does; ptr is the monitor under the pointer
configurenotify_screens(S, unique, ptr) ==
    LET S1 == updategeom_screens(S, unique)
    IN IF S1 # S
       THEN arrange(focus([S1 EXCEPT !.selmon = ptr], NULL), NULL)
       ELSE S

----------------------------------------------------------------------------
(* the window manager on two screens, with the geometry of its clients *)

\* the runs are cut after MaxEvents events that write a geometry
MaxEvents == 4
counting == events < MaxEvents

Handled(S) ==
    /\ mons' = S.mons
    /\ selmon' = S.selmon
    /\ cl' = S.cl
    /\ pc' = S.pc
    /\ events' = events + 1
    /\ grab' = grab

\* the Xinerama screens: the first screen is 24 or 30 high
Screens ==
    { << [x_org |-> 0, y_org |-> 0, width |-> 20, height |-> hh],
         [x_org |-> 20, y_org |-> 0, width |-> 30, height |-> 24] >> :
      hh \in {24, 30} }

\* the state after setup() on a display of two screens and no window
InitGeom ==
    /\ \E u \in Screens :
           mons = [i \in 1..2 |-> newmon(u[i].x_org, u[i].y_org, u[i].width, u[i].height)]
    /\ selmon \in DOMAIN mons
    /\ cl = [w \in Win |-> NoClient]
    /\ pc = "run"
    /\ events = 0
    /\ grab = NoGrab

\* what the X server reports of a window that asks to be mapped
GeomAttrs ==
    [x : {3}, y : {5}, width : {8}, height : {6}, border_width : {0},
     state : BOOLEAN, wtype : BOOLEAN, size : {NoHints}]

\* the ConfigureRequest events of a window: a new border width, a new
\* rectangle, a new position
GeomRequests ==
    { [value_mask |-> {"CWBorderWidth"}, x |-> 0, y |-> 0, width |-> 0,
       height |-> 0, border_width |-> 2],
      [value_mask |-> {"CWX", "CWY", "CWWidth", "CWHeight"}, x |-> 2, y |-> 7,
       width |-> 10, height |-> 9, border_width |-> 0] }

MapRequestGeom(w, wa) ==
    /\ running
    /\ counting
    /\ wintoclient(World, w) = NULL
    /\ Handled(maprequest_arrange(World, w, wa))

DestroyNotifyGeom(w) ==
    /\ running
    /\ counting
    /\ wintoclient(World, w) # NULL
    /\ Handled(unmanage_arrange(World, wintoclient(World, w)))

ClientMessageState(w, action) ==
    /\ running
    /\ counting
    /\ wintoclient(World, w) # NULL
    /\ Handled(clientmessage_state(World, w, action))

ClientMessageActive(w) ==
    /\ running
    /\ counting
    /\ wintoclient(World, w) # NULL
    /\ Handled(clientmessage_active(World, w))

ConfigureRequest(w, ev) ==
    /\ running
    /\ counting
    /\ wintoclient(World, w) # NULL
    /\ Handled(configurerequest(World, w, ev))

PropertyNotifyWindowType(w, state, wtype) ==
    /\ running
    /\ counting
    /\ wintoclient(World, w) # NULL
    /\ Handled(propertynotify_windowtype(World, w, state, wtype))

ConfigureNotifyScreens(unique, ptr) ==
    /\ running
    /\ counting
    /\ updategeom_screens(World, unique) # World
    /\ Handled(configurenotify_screens(World, unique, ptr))

ViewArrange(ui) ==
    /\ running
    /\ counting
    /\ (ui \cap TAGMASK) # curtags(mons[selmon])
    /\ Handled(view_arrange(World, ui))

TagMonArrange(i) ==
    /\ running
    /\ counting
    /\ mons[selmon].sel # NULL
    /\ Len(mons) > 1
    /\ Handled(tagmon_arrange(World, i))

ToggleFloating ==
    /\ running
    /\ counting
    /\ mons[selmon].sel # NULL
    /\ ~cl[mons[selmon].sel].isfullscreen
    /\ Handled(togglefloating(World))

SetLayout(v) ==
    /\ running
    /\ counting
    /\ Handled(setlayout(World, v))

\* arg->f of the keys that call setmfact in config.h, and two fractions to
\* set: 0.90 and 0.95
MfactArgs == {-5, 5, 190, 195}

SetMFact(f) ==
    /\ running
    /\ counting
    /\ setmfact(World, f) # World
    /\ Handled(setmfact(World, f))

NextGeom ==
    \/ \E w \in Win, wa \in GeomAttrs : MapRequestGeom(w, wa)
    \/ \E w \in Win : DestroyNotifyGeom(w)
    \/ \E w \in Win, action \in 0..2 : ClientMessageState(w, action)
    \/ \E w \in Win : ClientMessageActive(w)
    \/ \E w \in Win, ev \in GeomRequests : ConfigureRequest(w, ev)
    \/ \E w \in Win, state \in BOOLEAN, wtype \in BOOLEAN :
           PropertyNotifyWindowType(w, state, wtype)
    \/ \E unique \in Screens, ptr \in 1..2 : ConfigureNotifyScreens(unique, ptr)
    \/ \E ui \in TagMasks : ViewArrange(ui)
    \/ TagMonArrange(1)
    \/ FocusStack(1)
    \/ FocusMon(1)
    \/ ToggleFloating
    \/ \E v \in {NULL, 3} : SetLayout(v)
    \/ \E f \in MfactArgs : SetMFact(f)

SpecGeom == InitGeom /\ [][NextGeom]_vars

----------------------------------------------------------------------------
(* movemouse and resizemouse: the pointer grab and its event loop *)

\* snap of config.h is 32 pixels on a screen of some 1000 pixels; the
\* screens here are 20 and 30 wide, and snap is 2
snap == 2

abs(i) == IF i < 0 THEN -i ELSE i

\* the area that the rectangle shares with the window area of monitor M
INTERSECT(x, y, w, h, M) ==
    MAX(0, MIN(x + w, M.wx + M.ww) - MAX(x, M.wx))
        * MAX(0, MIN(y + h, M.wy + M.wh) - MAX(y, M.wy))

\* the first monitor of the list that shares the largest area with the
\* rectangle, selmon when no monitor shares any
recttomon(S, x, y, w, h) ==
    LET a(m) == INTERSECT(x, y, w, h, S.mons[m])
        best == {m \in DOMAIN S.mons :
                     /\ a(m) > 0
                     /\ \A n \in DOMAIN S.mons : a(n) <= a(m)}
    IN IF best = {} THEN S.selmon ELSE Min(best)

\* the edge of the window area that nx is snapped to
snapx(M, C, nx) ==
    IF abs(M.wx - nx) < snap THEN M.wx
    ELSE IF abs((M.wx + M.ww) - (nx + WIDTH(C))) < snap
         THEN M.wx + M.ww - WIDTH(C)
         ELSE nx

snapy(M, C, ny) ==
    IF abs(M.wy - ny) < snap THEN M.wy
    ELSE IF abs((M.wy + M.wh) - (ny + HEIGHT(C))) < snap
         THEN M.wy + M.wh - HEIGHT(C)
         ELSE ny

\* if(!selmon->lt[selmon->sellt]->arrange || c->isfloating)
\*     resize(c, nx, ny, c->w, c->h, True)
mouse_move(S, c, nx, ny) ==
    IF ltarrange(S.mons[S.selmon]) = "NULL" \/ S.cl[c].isfloating
    THEN resize(S, c, nx, ny, S.cl[c].w, S.cl[c].h, TRUE)
    ELSE S

\* if(!selmon->lt[selmon->sellt]->arrange || c->isfloating)
\*     resize(c, c->x, c->y, nw, nh, True)
mouse_size(S, c, nw, nh) ==
    IF ltarrange(S.mons[S.selmon]) = "NULL" \/ S.cl[c].isfloating
    THEN resize(S, c, S.cl[c].x, S.cl[c].y, nw, nh, TRUE)
    ELSE S

\* if(!c->isfloating && selmon->lt[selmon->sellt]->arrange && far)
\*     togglefloating(NULL)
\* the client that is made to float is the one that togglefloating finds
\* in selmon->sel
mouse_float(S, c, far) ==
    IF ~S.cl[c].isfloating /\ ltarrange(S.mons[S.selmon]) # "NULL" /\ far
    THEN togglefloating(S)
    ELSE S

\* case MotionNotify of movemouse, for the locals g of the function and the
\* pointer at (ex, ey)
movemouse_motion(S, g, ex, ey) ==
    LET c == g.c
        C == S.cl[c]
        M == S.mons[S.selmon]
        nx0 == g.ocx + (ex - g.x)
        ny0 == g.ocy + (ey - g.y)
        inside == /\ nx0 >= M.wx /\ nx0 <= M.wx + M.ww
                  /\ ny0 >= M.wy /\ ny0 <= M.wy + M.wh
        nx == IF inside THEN snapx(M, C, nx0) ELSE nx0
        ny == IF inside THEN snapy(M, C, ny0) ELSE ny0
        far == abs(nx - C.x) > snap \/ abs(ny - C.y) > snap
    IN mouse_move(mouse_float(S, c, inside /\ far), c, nx, ny)

\* case MotionNotify of resizemouse
resizemouse_motion(S, g, ex, ey) ==
    LET c == g.c
        C == S.cl[c]
        M == S.mons[S.selmon]
        cm == S.mons[C.mon]
        nw == MAX(ex - g.ocx - 2 * C.bw + 1, 1)
        nh == MAX(ey - g.ocy - 2 * C.bw + 1, 1)
        inside == /\ cm.wx + nw >= M.wx /\ cm.wx + nw <= M.wx + M.ww
                  /\ cm.wy + nh >= M.wy /\ cm.wy + nh <= M.wy + M.wh
        far == abs(nw - C.w) > snap \/ abs(nh - C.h) > snap
    IN mouse_size(mouse_float(S, c, inside /\ far), c, nw, nh)

\* the types of the events that XMaskEvent takes from the queue for the
\* mask MOUSEMASK|ExposureMask|SubstructureRedirectMask; every other event
\* stays in the queue for run()
Masked ==
    {"ButtonPress", "ButtonRelease", "MotionNotify", "Expose", "MapRequest",
     "ConfigureRequest", "CirculateRequest"}

\* the switch of the loop for one event ev, in the function fn; a type
\* with no case is dropped
mouse_switch(S, fn, g, ev) ==
    CASE ev.type = "MapRequest" -> maprequest_arrange(S, ev.window, ev.wa)
      [] ev.type = "ConfigureRequest" -> configurerequest(S, ev.window, ev.req)
      [] ev.type = "MotionNotify" ->
             IF fn = "movemouse"
             THEN movemouse_motion(S, g, ev.x, ev.y)
             ELSE resizemouse_motion(S, g, ev.x, ev.y)
      [] OTHER -> S

\* the loop that is also left after a ButtonPress
leaves_press(type) == type \in {"ButtonRelease", "ButtonPress"}

\* while(ev.type != ButtonRelease): the loop is left after this event
leaves(type) == type = "ButtonRelease"

\* what follows the loop, XUngrabPointer aside: the client goes to the
\* monitor that holds most of it, and this monitor is selected
mouse_tomon(S, c, m) ==
    IF m = S.selmon THEN S
    ELSE focus([sendmon_arrange(S, c, m) EXCEPT !.selmon = m], NULL)

mouse_release(S, c) ==
    mouse_tomon(S, c, recttomon(S, S.cl[c].x, S.cl[c].y, S.cl[c].w, S.cl[c].h))

\* one turn of the loop of fn: the event is handled, and if it is the last
\* the function goes on to its end and returns to run()
mouse_turn(S, fn, g, ev) ==
    IF leaves(ev.type)
    THEN [mouse_release(mouse_switch(S, fn, g, ev), g.c) EXCEPT !.pc = "run"]
    ELSE mouse_switch(S, fn, g, ev)

\* where the pointer is moved to
MotionPoints == {<<1, 5>>, <<4, 9>>, <<24, 9>>}

\* the events of the loop: the masked events that the X server sends
MouseEvents ==
    [type : {"ButtonPress", "ButtonRelease", "Expose", "CirculateRequest"}]
    \cup {[type |-> "MotionNotify", x |-> p[1], y |-> p[2]] : p \in MotionPoints}
    \cup {[type |-> "MapRequest", window |-> w, wa |-> wa] :
              w \in Win, wa \in GeomAttrs}
    \cup {[type |-> "ConfigureRequest", window |-> w, req |-> req] :
              w \in Win, req \in GeomRequests}

\* a window asks to be mapped before it is managed, and asks for a
\* geometry after
sent(S, ev) ==
    CASE ev.type = "MapRequest" -> wintoclient(S, ev.window) = NULL
      [] ev.type = "ConfigureRequest" -> wintoclient(S, ev.window) # NULL
      [] OTHER -> TRUE

\* movemouse up to its loop; ptr is what getrootptr returns, and the
\* pointer was on the window of the client when the button went down.
\* XGrabPointer has succeeded when the function gets this far; when
\* getrootptr fails the function returns
MoveMouse(ptr) ==
    /\ running
    /\ mons[selmon].sel # NULL
    /\ ~cl[mons[selmon].sel].isfullscreen
    /\ LET c == mons[selmon].sel
       IN IF ptr
          THEN /\ pc' = "movemouse"
               /\ grab' = [held |-> TRUE, c |-> c, x |-> cl[c].x, y |-> cl[c].y,
                           ocx |-> cl[c].x, ocy |-> cl[c].y, type |-> "None"]
          ELSE /\ pc' = pc
               /\ grab' = [grab EXCEPT !.held = TRUE]
    /\ UNCHANGED <<mons, selmon, cl, events>>

\* resizemouse up to its loop
ResizeMouse ==
    /\ running
    /\ mons[selmon].sel # NULL
    /\ ~cl[mons[selmon].sel].isfullscreen
    /\ LET c == mons[selmon].sel
       IN /\ pc' = "resizemouse"
          /\ grab' = [held |-> TRUE, c |-> c, x |-> 0, y |-> 0,
                      ocx |-> cl[c].x, ocy |-> cl[c].y, type |-> "None"]
    /\ UNCHANGED <<mons, selmon, cl, events>>

inloop == pc \in {"movemouse", "resizemouse"}

Turned(S) ==
    /\ mons' = S.mons
    /\ selmon' = S.selmon
    /\ cl' = S.cl
    /\ pc' = S.pc

\* one turn of the loop; the event that ends the loop is not counted, so
\* that a run can always leave the loop
MouseEvent(ev) ==
    /\ inloop
    /\ ev.type \in Masked
    /\ sent(World, ev)
    /\ counting \/ leaves(ev.type)
    /\ Turned(mouse_turn(World, pc, grab, ev))
    /\ events' = IF leaves(ev.type) THEN events ELSE events + 1
    /\ grab' = IF leaves(ev.type)
               THEN [NoGrab EXCEPT !.type = ev.type]
               ELSE [grab EXCEPT !.type = ev.type]

NextMouse ==
    \/ \E w \in Win, wa \in GeomAttrs : MapRequestGeom(w, wa)
    \/ \E ptr \in BOOLEAN : MoveMouse(ptr)
    \/ ResizeMouse
    \/ \E ev \in MouseEvents : MouseEvent(ev)
    \/ FocusStack(1)
    \/ SetLayout(NULL)

SpecMouse == InitGeom /\ [][NextMouse]_vars

----------------------------------------------------------------------------
(* vocabulary of the properties *)

\* the windows that have a Client in state S
managed(S) == {w \in DOMAIN S.cl : S.cl[w] # NoClient}

\* how often c occurs in the list s
Count(s, c) == Cardinality({i \in DOMAIN s : s[i] = c})

\* the clients of monitor m that are visible in state S
visible(S, m) == {w \in managed(S) : S.cl[w].mon = m /\ ISVISIBLE(S, w)}

\* c is on no list of S and no monitor of S selects it
Gone(S, c) ==
    \A m \in DOMAIN S.mons :
        /\ Count(S.mons[m].clients, c) = 0
        /\ Count(S.mons[m].stack, c) = 0
        /\ S.mons[m].sel # c

----------------------------------------------------------------------------
(* C1 *)

\* C1: in every reachable state every managed client is on the clients list of
\* exactly one monitor, exactly once, and that monitor is the one its mon
\* field names; on every monitor the clients list and the stack hold the same
\* clients, neither holds one twice, and neither holds a window without a
\* Client.
C1_ListsAgree ==
    /\ \A w \in managed(World) :
           /\ cl[w].mon \in DOMAIN mons
           /\ \A m \in DOMAIN mons :
                  Count(mons[m].clients, w) = (IF m = cl[w].mon THEN 1 ELSE 0)
    /\ \A m \in DOMAIN mons :
           /\ Elems(mons[m].clients) = Elems(mons[m].stack)
           /\ Elems(mons[m].clients) \subseteq managed(World)
           /\ \A w \in Win : Count(mons[m].clients, w) <= 1 /\ Count(mons[m].stack, w) <= 1

\* C1 witness: two clients on a monitor that is not selected (sendmon or the
\* removal of a monitor brought at least one of them), in a focus order that
\* differs from their order on the clients list
C1_Witness ==
    /\ running
    /\ \E m \in DOMAIN mons :
           /\ m # selmon
           /\ Len(mons[m].clients) = 2
           /\ mons[m].stack = Reverse(mons[m].clients)

----------------------------------------------------------------------------
(* C2 *)

\* C2: in every reachable state, on EVERY monitor, sel is NULL or a client
\* on the stack of that monitor that is visible in the monitor's view.
\* manage() breaks it: c->mon->sel = c is written for a transient window that
\* took monitor and tags from its parent, whether or not c is visible, and
\* the focus(NULL) that follows only chooses the sel of selmon.
C2_SelVisibleOnStack ==
    \A m \in DOMAIN mons :
        \/ mons[m].sel = NULL
        \/ /\ Count(mons[m].stack, mons[m].sel) = 1
           /\ mons[m].sel \in visible(World, m)

----------------------------------------------------------------------------
(* C3 *)

\* C3: in every reachable state every client has at least one tag and no bit
\* outside TAGMASK; and tag and toggletag, called from a reachable state with
\* any mask (0 and masks with a bit above TAGMASK included), lead to such a
\* state again.
C3_TagsValid ==
    /\ \A w \in managed(World) : cl[w].tags # {} /\ cl[w].tags \subseteq TAGMASK
    /\ running =>
           \A ui \in Masks : \A w \in managed(World) :
               /\ tag(World, ui).cl[w].tags # {}
               /\ tag(World, ui).cl[w].tags \subseteq TAGMASK
               /\ toggletag(World, ui).cl[w].tags # {}
               /\ toggletag(World, ui).cl[w].tags \subseteq TAGMASK

\* C3 witness: a transient client (its parent is on the same monitor with the
\* same tags) that carries every tag: tag(~0) or toggletag worked on it or on
\* its parent
C3_Witness ==
    /\ running
    /\ \E w \in managed(World) : \E t \in managed(World) :
           /\ w # t
           /\ cl[w].isfloating
           /\ cl[w].tags = TAGMASK
           /\ cl[t].tags = {0}

----------------------------------------------------------------------------
(* C4 *)

\* C4: in every reachable state the current view of every monitor is not
\* empty, and view and toggleview, called with any mask, keep it so;
\* toggleview(mask) makes the current view of the selected monitor
\* current XOR (mask & TAGMASK) when that is not zero and leaves the view as
\* it is otherwise; it never touches seltags or the other slot.
C4_ViewNeverEmpty ==
    /\ \A m \in DOMAIN mons : curtags(mons[m]) # {}
    /\ running =>
           \A ui \in Masks :
               LET old == mons[selmon]
                   new == XorMask(curtags(old), ui \cap TAGMASK)
                   T == toggleview(World, ui)
                   V == view(World, ui)
               IN /\ curtags(T.mons[selmon]) = (IF new # {} THEN new ELSE curtags(old))
                  /\ T.mons[selmon].seltags = old.seltags
                  /\ T.mons[selmon].tagset[2 - old.seltags] = old.tagset[2 - old.seltags]
                  /\ \A m \in DOMAIN mons :
                         /\ curtags(T.mons[m]) # {}
                         /\ curtags(V.mons[m]) # {}
                         /\ m # selmon => /\ T.mons[m].tagset = mons[m].tagset
                                          /\ T.mons[m].seltags = mons[m].seltags

\* C4 witness: the selected monitor shows every tag from its second slot, and
\* toggleview of a single tag takes one tag away while toggleview of the whole
\* view is refused
C4_Witness ==
    /\ running
    /\ mons[selmon].seltags = 1
    /\ curtags(mons[selmon]) = TAGMASK
    /\ curtags(toggleview(World, {0}).mons[selmon]) = TAGMASK \ {0}
    /\ curtags(toggleview(World, AllBits).mons[selmon]) = TAGMASK

----------------------------------------------------------------------------
(* C5 *)

\* C5: from every reachable state, for every managed client c: after
\* destroynotify or a non-synthetic unmapnotify for its window, and after
\* every unmanage of the loop of cleanup(), c has no Client any more, is on
\* no clients list and no stack, and is the sel of no monitor; and no
\* reachable state has a window without a Client on a list or as a sel.
C5_UnmanagedGone ==
    /\ \A m \in DOMAIN mons :
           /\ Elems(mons[m].clients) \cup Elems(mons[m].stack) \subseteq managed(World)
           /\ mons[m].sel # NULL => mons[m].sel \in managed(World)
    /\ running =>
           /\ \A c \in managed(World) :
                  /\ Gone(destroynotify(World, c), c)
                  /\ destroynotify(World, c).cl[c] = NoClient
                  /\ Gone(unmapnotify(World, c, FALSE), c)
                  /\ unmapnotify(World, c, FALSE).cl[c] = NoClient
           /\ LET loop == cleanuploop(cleanupstart(World))
              IN /\ Len(loop) = Cardinality(managed(World)) + 1
                 /\ managed(loop[Len(loop)]) = {}
                 /\ \A i \in 1..(Len(loop) - 1) :
                        \A c \in managed(loop[i]) \ managed(loop[i + 1]) :
                            Gone(loop[i + 1], c)
                 /\ \A i \in 1..Len(loop) : \A c \in Win \ managed(loop[i]) :
                        Gone(loop[i], c)

\* C5 witness: a client that is the sel of a monitor that is not selected
\* and shares the stack with a visible client; unmanage has to detach it and
\* to give that monitor the other client as sel
C5_Witness ==
    /\ running
    /\ \E c \in managed(World) :
           LET m == cl[c].mon
           IN /\ m # selmon
              /\ mons[m].sel = c
              /\ Len(mons[m].stack) = 2
              /\ destroynotify(World, c).mons[m].sel \in managed(World) \ {c}

----------------------------------------------------------------------------
(* C6 *)

\* C6 as claimed: when manage completes for a new window, whatever the
\* server reports of it, the new client is the head of the clients list and
\* of the stack of its monitor and it is selmon->sel.
C6_NewClientSelected ==
    running =>
        \A w \in Win \ managed(World) : \A wa \in WinAttrs :
            ~wa.override_redirect =>
                LET M == maprequest(World, w, wa)
                    m == M.cl[w].mon
                IN /\ Head(M.mons[m].clients) = w
                   /\ Head(M.mons[m].stack) = w
                   /\ M.mons[M.selmon].sel = w

\* C6 amended: when manage completes for a new window the new client is the
\* head of the clients list of its monitor and selmon is the monitor it was.
\* A window without a transient parent that has a client is on selmon and
\* visible; a transient one is on the monitor of its parent with the tags of
\* its parent.  The new client is the head of its stack and selmon->sel
\* exactly when it is on selmon and visible; on another monitor it is the
\* head of that stack and not selmon->sel.
C6_NewClientHeadOfClients ==
    running =>
        \A w \in Win \ managed(World) : \A wa \in WinAttrs :
            ~wa.override_redirect =>
                LET M == maprequest(World, w, wa)
                    m == M.cl[w].mon
                    t == IF wa.trans # NULL THEN wintoclient(World, wa.trans) ELSE NULL
                IN /\ w \in managed(M)
                   /\ Head(M.mons[m].clients) = w
                   /\ M.selmon = selmon
                   /\ IF m = selmon /\ ISVISIBLE(M, w)
                      THEN Head(M.mons[m].stack) = w /\ M.mons[selmon].sel = w
                      ELSE M.mons[selmon].sel # w
                   /\ m # selmon => Head(M.mons[m].stack) = w
                   /\ t = NULL => m = selmon /\ ISVISIBLE(M, w)
                   /\ t # NULL => m = cl[t].mon /\ M.cl[w].tags = cl[t].tags

\* C6 witness: the only client of the selected monitor is hidden by the
\* view; a window that is transient for it is managed with its tags, becomes
\* the head of both lists and is not selected: selmon->sel is NULL
C6_Witness ==
    /\ running
    /\ \E t \in managed(World) : \E w \in Win \ managed(World) :
           LET M == maprequest(World, w, [plain EXCEPT !.trans = t])
           IN /\ cl[t].mon = selmon
              /\ ~ISVISIBLE(World, t)
              /\ M.cl[w].tags = cl[t].tags
              /\ M.cl[w].isfloating
              /\ M.mons[selmon].clients = << w, t >>
              /\ M.mons[selmon].stack = << w, t >>
              /\ M.mons[selmon].sel = NULL

----------------------------------------------------------------------------
(* C7 *)

\* C7: view(mask), called from any reachable state with any mask: when
\* mask & TAGMASK is the current view of the selected monitor the state stays
\* as it is; otherwise seltags of the selected monitor is toggled, the slot
\* that is current now holds mask & TAGMASK when that is not zero and what
\* it held before when it is zero, and the slot that was current holds what
\* it held.
C7_ViewSwitchesSlot ==
    running =>
        \A ui \in Masks :
            LET old == mons[selmon]
                V == view(World, ui)
                new == V.mons[selmon]
                mask == ui \cap TAGMASK
            IN IF mask = curtags(old)
               THEN V = World
               ELSE /\ V.selmon = selmon
                    /\ new.seltags = 1 - old.seltags
                    /\ new.tagset[new.seltags + 1] =
                           (IF mask # {} THEN mask ELSE old.tagset[new.seltags + 1])
                    /\ new.tagset[old.seltags + 1] = old.tagset[old.seltags + 1]

\* C7 witness: the selected monitor shows tag 1 from its second slot and
\* keeps tag 0 in the first (view(1 << 1) did this); view(0) from here
\* goes back to the first slot and view(~0) overwrites it
C7_Witness ==
    /\ running
    /\ mons[selmon].seltags = 1
    /\ mons[selmon].tagset = << {0}, {1} >>
    /\ view(World, {}).mons[selmon].tagset = << {0}, {1} >>
    /\ view(World, {}).mons[selmon].seltags = 0
    /\ view(World, AllBits).mons[selmon].tagset = << TAGMASK, {1} >>

----------------------------------------------------------------------------
(* C8 *)

\* C8 as claimed: from every reachable state and for every mask, after
\* view(mask) and then view(0) the selected monitor shows the view it showed
\* before.
C8_ViewThenViewZero ==
    running =>
        \A ui \in Masks :
            curtags(view(view(World, ui), {}).mons[selmon]) = curtags(mons[selmon])

\* C8 amended: from every reachable state, for every mask with mask & TAGMASK
\* other than the current view (mask & TAGMASK = 0 included), after
\* view(mask) and then view(0) the selected monitor shows the view it showed
\* before, from the slot it showed it from.  When mask & TAGMASK is the
\* current view, view(mask) changes nothing and view(0) then shows the other
\* slot.
C8_ViewZeroUndoesView ==
    running =>
        \A ui \in Masks :
            LET old == mons[selmon]
                back == view(view(World, ui), {}).mons[selmon]
            IN IF (ui \cap TAGMASK) # curtags(old)
               THEN /\ curtags(back) = curtags(old)
                    /\ back.seltags = old.seltags
               ELSE /\ view(World, ui) = World
                    /\ back.seltags = 1 - old.seltags
                    /\ curtags(back) = old.tagset[2 - old.seltags]

\* C8 witness: the two slots of the selected monitor differ; view of the
\* current view and then view(0) ends on the other slot, view of another
\* mask and then view(0) ends on the view shown now
C8_Witness ==
    /\ running
    /\ mons[selmon].tagset[1] # mons[selmon].tagset[2]
    /\ curtags(view(view(World, curtags(mons[selmon])), {}).mons[selmon])
           # curtags(mons[selmon])
    /\ \E ui \in Masks :
           /\ (ui \cap TAGMASK) # curtags(mons[selmon])
           /\ (ui \cap TAGMASK) # {}
           /\ curtags(view(view(World, ui), {}).mons[selmon]) = curtags(mons[selmon])

----------------------------------------------------------------------------
(* C9 *)

\* C9 as claimed: view(0), called from any reachable state, leaves seltags
\* and both slots of the selected monitor, its sel and the set of its visible
\* clients as they are.
C9_ViewZeroNoOp ==
    running =>
        LET V == view(World, {})
        IN /\ V.mons[selmon].seltags = mons[selmon].seltags
           /\ V.mons[selmon].tagset = mons[selmon].tagset
           /\ V.mons[selmon].sel = mons[selmon].sel
           /\ visible(V, selmon) = visible(World, selmon)

\* C9 amended: view(0), called from any reachable state, toggles seltags of
\* the selected monitor and leaves both slots as they are, so that the
\* monitor shows what the other slot holds; the clients, their tags, the
\* lists and the other monitors stay as they are (the stack but for its
\* order); afterwards sel is a visible client of the monitor, or NULL when
\* it has none.  The set of visible clients stays when both slots hold the
\* same view.
C9_ViewZeroToggles ==
    running =>
        LET old == mons[selmon]
            V == view(World, {})
            new == V.mons[selmon]
        IN /\ new.seltags = 1 - old.seltags
           /\ new.tagset = old.tagset
           /\ curtags(new) = old.tagset[2 - old.seltags]
           /\ V.cl = cl
           /\ V.selmon = selmon
           /\ new.clients = old.clients
           /\ Elems(new.stack) = Elems(old.stack)
           /\ \A m \in DOMAIN mons : m # selmon => V.mons[m] = mons[m]
           /\ IF visible(V, selmon) = {}
              THEN new.sel = NULL
              ELSE new.sel \in visible(V, selmon)
           /\ old.tagset[1] = old.tagset[2] => visible(V, selmon) = visible(World, selmon)

\* C9 witness: the selected client is visible in the current view and not
\* in the view of the other slot: view(0) hides it and selects another
\* client
C9_Witness ==
    /\ running
    /\ mons[selmon].sel # NULL
    /\ mons[selmon].sel \in visible(World, selmon)
    /\ mons[selmon].sel \notin visible(view(World, {}), selmon)
    /\ view(World, {}).mons[selmon].sel \in managed(World) \ {mons[selmon].sel}

----------------------------------------------------------------------------
(* C10 *)

\* C10: tag(mask), called from any reachable state with any mask, gives the
\* selected client the tags mask & TAGMASK when there is a selected client
\* and mask & TAGMASK is not zero, and leaves the tags of every other client,
\* and in every other case of every client, as they are.  A selected client
\* with tags {0} has tags {0, 1} after toggletag(1 << 1) and is then visible
\* in the view of tag 0 and in the view of tag 1; it has tags {1} after
\* tag(1 << 1) and is then not visible in the view of tag 0.
C10_TagReplaces ==
    running =>
        LET c == mons[selmon].sel
        IN /\ \A ui \in Masks : \A w \in Win :
                  tag(World, ui).cl[w].tags =
                      (IF w = c /\ (ui \cap TAGMASK) # {}
                       THEN ui \cap TAGMASK
                       ELSE cl[w].tags)
           /\ (c # NULL /\ cl[c].tags = {0}) =>
                  LET G == toggletag(World, {1})
                      T == tag(World, {1})
                  IN /\ G.cl[c].tags = {0, 1}
                     /\ ISVISIBLE(view(G, {0}), c)
                     /\ ISVISIBLE(view(G, {1}), c)
                     /\ T.cl[c].tags = {1}
                     /\ ~ISVISIBLE(view(T, {0}), c)

\* C10 witness: the selected client has tags {0} and shares the monitor
\* with a client of other tags; tag(1 << 1) retags the one and not the other
C10_Witness ==
    /\ running
    /\ \E c \in managed(World) : \E w \in managed(World) :
           /\ c = mons[selmon].sel
           /\ w # c
           /\ cl[w].mon = selmon
           /\ cl[c].tags = {0}
           /\ cl[w].tags = TAGMASK
           /\ tag(World, {1}).cl[c].tags = {1}
           /\ tag(World, {1}).cl[w].tags = TAGMASK

----------------------------------------------------------------------------
(* C11 *)

\* C11 as claimed: from every reachable state with a selected client c and
\* for every mask m with c.tags XOR (m & TAGMASK) not zero, after
\* toggletag(m) and toggletag(m) again every client has the tags it had.
C11_ToggleTagTwice ==
    running =>
        LET c == mons[selmon].sel
        IN c # NULL =>
               \A ui \in Masks :
                   XorMask(cl[c].tags, ui \cap TAGMASK) # {} =>
                       \A w \in Win :
                           toggletag(toggletag(World, ui), ui).cl[w].tags = cl[w].tags

\* C11 amended: from every reachable state with a selected client c and for
\* every mask m with c.tags XOR (m & TAGMASK) not zero: after the first
\* toggletag(m) the selected client is the first client of the stack that is
\* visible then; when that is c, the second toggletag(m) gives every client
\* the tags it had before.  When it is not c (the first toggle took c out of
\* the view, or c was not the first visible client of the stack), c keeps
\* the toggled tags, the second toggle acts on the client selected then (if
\* there is one and its result is not zero), and every other client keeps
\* its tags.
C11_ToggleTagTwiceSelected ==
    running =>
        LET c == mons[selmon].sel
        IN c # NULL =>
               \A ui \in Masks :
                   LET new == XorMask(cl[c].tags, ui \cap TAGMASK)
                       T1 == toggletag(World, ui)
                       T2 == toggletag(T1, ui)
                       c2 == T1.mons[T1.selmon].sel
                   IN new # {} =>
                          /\ T1.selmon = selmon
                          /\ T1.cl[c].tags = new
                          /\ c2 = firstvisible(T1, T1.mons[selmon].stack)
                          /\ ~ISVISIBLE(T1, c) => c2 # c
                          /\ c2 = c => \A w \in Win : T2.cl[w].tags = cl[w].tags
                          /\ c2 # c =>
                                 /\ T2.cl[c].tags = new
                                 /\ \A w \in Win \ {c, c2} : T2.cl[w].tags = cl[w].tags
                                 /\ c2 # NULL =>
                                        T2.cl[c2].tags =
                                            (IF XorMask(cl[c2].tags, ui \cap TAGMASK) # {}
                                             THEN XorMask(cl[c2].tags, ui \cap TAGMASK)
                                             ELSE cl[c2].tags)

\* C11 witness: the selected client has tags {0, 1} in the view of tag 0
\* and shares it with a client of tag 0: toggletag(1 << 0) hides the one
\* and selects the other, whose tags the second toggletag(1 << 0) would
\* make zero and so leaves alone; a toggle of tag 1 is undone by the second
C11_Witness ==
    /\ running
    /\ \E c \in managed(World) : \E w \in managed(World) \ {c} :
           /\ c = mons[selmon].sel
           /\ cl[w].mon = selmon
           /\ cl[c].tags = TAGMASK
           /\ cl[w].tags = {0}
           /\ curtags(mons[selmon]) = {0}
           /\ toggletag(World, {0}).mons[selmon].sel = w
           /\ toggletag(toggletag(World, {0}), {0}).cl[c].tags = {1}
           /\ toggletag(toggletag(World, {0}), {0}).cl[w].tags = {0}
           /\ toggletag(toggletag(World, {1}), {1}).cl[c].tags = TAGMASK

----------------------------------------------------------------------------
(* C17 *)

\* C17: from every reachable state and for every managed client c, the
\* state after focus(c) and focus(c) again is the state after one focus(c):
\* selmon, the sel, the stack and the clients list of every monitor and the
\* urgency flag of every client are the same.
C17_FocusTwice ==
    running =>
        \A c \in managed(World) :
            focus(focus(World, c), c) = focus(World, c)

\* C17 witness: an urgent visible client of a monitor that is not selected
\* and that is not the head of its stack: focus(c) selects its monitor and
\* the client, moves it to the head of the stack and clears its urgency
C17_Witness ==
    /\ running
    /\ \E c \in managed(World) :
           /\ cl[c].mon # selmon
           /\ cl[c].isurgent
           /\ ISVISIBLE(World, c)
           /\ Len(mons[cl[c].mon].stack) > 1
           /\ Head(mons[cl[c].mon].stack) # c
           /\ focus(World, c).selmon = cl[c].mon
           /\ focus(World, c).mons[cl[c].mon].sel = c
           /\ Head(focus(World, c).mons[cl[c].mon].stack) = c
           /\ ~focus(World, c).cl[c].isurgent
           /\ focus(focus(World, c), c) = focus(World, c)

----------------------------------------------------------------------------
(* C18 *)

\* the visible clients of the selected monitor of S, in clients-list order
visibleclients(S) ==
    SelectSeq(S.mons[S.selmon].clients, LAMBDA w : ISVISIBLE(S, w))

\* the states after 1, 2, ..., n calls of focusstack(i) from S
RECURSIVE focusstackrun(_, _, _)
focusstackrun(S, i, n) ==
    IF n = 0 THEN << >>
    ELSE << focusstack(S, i) >> \o focusstackrun(focusstack(S, i), i, n - 1)

\* the position of c in the list s
Pos(s, c) == Min({j \in DOMAIN s : s[j] = c})

\* C18: from every reachable state in which the selected client of the
\* selected monitor is one of its k visible clients, k calls of
\* focusstack(+1) select the visible clients that follow it in the clients
\* list, in list order and wrapping from the last to the first, each once,
\* and end on the client that was selected; k calls of focusstack(-1) select
\* them in the reverse order; no call changes selmon, a clients list or the
\* tags of a client.
C18_FocusStackCycle ==
    running =>
        LET V == visibleclients(World)
            k == Len(V)
            sel == mons[selmon].sel
        IN (sel # NULL /\ ISVISIBLE(World, sel)) =>
               LET p == Pos(V, sel)
                   fwd == focusstackrun(World, 1, k)
                   bwd == focusstackrun(World, -1, k)
               IN \A j \in 1..k :
                      /\ fwd[j].mons[selmon].sel = V[((p + j - 1) % k) + 1]
                      /\ bwd[j].mons[selmon].sel = V[((p - j - 1) % k) + 1]
                      /\ \A S \in {fwd[j], bwd[j]} :
                             /\ S.selmon = selmon
                             /\ \A m \in DOMAIN mons : S.mons[m].clients = mons[m].clients
                             /\ \A w \in DOMAIN cl : S.cl[w].tags = cl[w].tags

\* C18 witness: three visible clients A, B, C in list order with A selected:
\* three calls of focusstack(+1) select B, C and A
C18_Witness ==
    /\ running
    /\ Len(mons[selmon].clients) = 3
    /\ visibleclients(World) = mons[selmon].clients
    /\ mons[selmon].sel = mons[selmon].clients[1]
    /\ LET fwd == focusstackrun(World, 1, 3)
       IN /\ fwd[1].mons[selmon].sel = mons[selmon].clients[2]
          /\ fwd[2].mons[selmon].sel = mons[selmon].clients[3]
          /\ fwd[3].mons[selmon].sel = mons[selmon].clients[1]

----------------------------------------------------------------------------
(* C12, C13, C14, C16: the layout functions *)

\* the rectangle (x, y, w, h) of a client record
rect(C) == << C.x, C.y, C.w, C.h >>

\* the sum of the outer heights of the clients of the list s in state S
RECURSIVE sumheights(_, _)
sumheights(S, s) ==
    IF s = << >> THEN 0 ELSE HEIGHT(S.cl[Head(s)]) + sumheights(S, Tail(s))

\* the outer rectangles of the clients a and b of S share a point
overlap(S, a, b) ==
    /\ S.cl[a].x < S.cl[b].x + WIDTH(S.cl[b])
    /\ S.cl[b].x < S.cl[a].x + WIDTH(S.cl[a])
    /\ S.cl[a].y < S.cl[b].y + HEIGHT(S.cl[b])
    /\ S.cl[b].y < S.cl[a].y + HEIGHT(S.cl[a])

\* the outer rectangle of client c of S lies in the window area of its monitor
inarea(S, c) ==
    LET M == S.mons[S.cl[c].mon]
    IN /\ M.wx <= S.cl[c].x
       /\ S.cl[c].x + WIDTH(S.cl[c]) <= M.wx + M.ww
       /\ M.wy <= S.cl[c].y
       /\ S.cl[c].y + HEIGHT(S.cl[c]) <= M.wy + M.wh

\* C12: after tile on a monitor with n >= 1 tiled clients, the first
\* min(n, nmaster) of them are at x = wx and the others at x = wx + mw, with
\* mw = ww when n <= nmaster, 0 when nmaster = 0 and trunc(ww * mfact)
\* otherwise; every master is mw wide and every other tile ww - mw wide,
\* borders included, and the outer heights of each column that is not
\* empty add up to wh.
C12_TileColumns ==
    running =>
        LET T == tile(World, 1)
            M == mons[1]
            V == tiled(World, 1)
            n == Len(V)
            k == MIN(n, M.nmaster)
            mw == IF n <= M.nmaster THEN M.ww
                  ELSE IF M.nmaster = 0 THEN 0 ELSE (M.ww * M.mfact) \div 100
            master == SubSeq(V, 1, k)
            stack == SubSeq(V, k + 1, n)
        IN n >= 1 =>
               /\ \A i \in 1..k :
                      T.cl[V[i]].x = M.wx /\ WIDTH(T.cl[V[i]]) = mw
               /\ \A i \in (k + 1)..n :
                      T.cl[V[i]].x = M.wx + mw /\ WIDTH(T.cl[V[i]]) = M.ww - mw
               /\ master # << >> => sumheights(T, master) = M.wh
               /\ stack # << >> => sumheights(T, stack) = M.wh

\* C13: after tile the outer rectangles of the tiled clients of the monitor
\* lie in its window area and no two of them overlap.
C13_TilesDisjointInArea ==
    running =>
        LET T == tile(World, 1)
            V == tiled(World, 1)
        IN /\ \A i \in DOMAIN V : inarea(T, V[i])
           /\ \A i, j \in DOMAIN V : i # j => ~overlap(T, V[i], V[j])

\* C14 as claimed: after monocle every visible client that does not float
\* has the geometry (wx, wy, ww - 2 * bw, wh - 2 * bw), and every other
\* client the geometry it had.
C14_MonocleExact ==
    running =>
        LET T == monocle(World, 1)
            M == mons[1]
            V == tiled(World, 1)
        IN \A c \in DOMAIN cl :
               IF \E i \in DOMAIN V : V[i] = c
               THEN rect(T.cl[c]) = << M.wx, M.wy, M.ww - 2 * cl[c].bw, M.wh - 2 * cl[c].bw >>
               ELSE rect(T.cl[c]) = rect(cl[c])

\* C14 amended: after monocle every visible client that does not float has
\* the geometry that applysizehints makes of (wx, wy, ww - 2 * bw,
\* wh - 2 * bw) for it: that rectangle itself when the client has no size
\* hints and the rectangle is at least bh wide and high; a resize increment,
\* a minimum or a maximum size of the client changes w and h.  Every other
\* client, floating or not in the view, keeps its record, and the monitor
\* its own.
C14_MonocleSizeHints ==
    running =>
        LET T == monocle(World, 1)
            M == mons[1]
            V == tiled(World, 1)
        IN /\ T.mons = mons
           /\ \A c \in DOMAIN cl :
                  IF \E i \in DOMAIN V : V[i] = c
                  THEN LET w == M.ww - 2 * cl[c].bw
                           h == M.wh - 2 * cl[c].bw
                           r == applysizehints(World, c, M.wx, M.wy, w, h, FALSE)
                           nohints == /\ cl[c].incw = 0 /\ cl[c].inch = 0
                                      /\ cl[c].basew = 0 /\ cl[c].baseh = 0
                                      /\ cl[c].minw = 0 /\ cl[c].minh = 0
                                      /\ cl[c].maxw = 0 /\ cl[c].maxh = 0
                       IN /\ rect(T.cl[c]) = << r.x, r.y, r.w, r.h >>
                          /\ T.cl[c].x = M.wx /\ T.cl[c].y = M.wy
                          /\ (nohints /\ w >= bh /\ h >= bh) =>
                                 rect(T.cl[c]) = << M.wx, M.wy, w, h >>
                          /\ [T.cl[c] EXCEPT !.x = 0, !.y = 0, !.w = 0, !.h = 0,
                                  !.oldx = 0, !.oldy = 0, !.oldw = 0, !.oldh = 0,
                                  !.winx = 0, !.winy = 0]
                             = [cl[c] EXCEPT !.x = 0, !.y = 0, !.w = 0, !.h = 0,
                                    !.oldx = 0, !.oldy = 0, !.oldw = 0, !.oldh = 0,
                                    !.winx = 0, !.winy = 0]
                  ELSE T.cl[c] = cl[c]

\* C14 witness: three visible clients that do not float, two without size
\* hints and one with a maximum size of 7: monocle gives the two the whole
\* window area less their borders and the third its maximum size
C14_Witness ==
    /\ running
    /\ Len(tiled(World, 1)) = 3
    /\ LET T == monocle(World, 1)
           M == mons[1]
       IN /\ T # World
          /\ \E a, b, c \in DOMAIN cl :
                 /\ a # b
                 /\ rect(T.cl[a]) = << M.wx, M.wy, M.ww - 2, M.wh - 2 >>
                 /\ rect(T.cl[b]) = << M.wx, M.wy, M.ww - 2, M.wh - 2 >>
                 /\ cl[c].maxw = 7
                 /\ rect(T.cl[c]) = << M.wx, M.wy, 7, 7 >>

\* the rectangles applysizehints is tried with
Rects == {-30, 0, 25} \X {-30, 0, 25} \X {0, 7, 20} \X {0, 7, 20}

\* C16: for every client and every rectangle, applysizehints applied to the
\* rectangle it returned, the client being as it was, returns that rectangle.
C16_ApplySizeHintsIdempotent ==
    running =>
        \A c \in DOMAIN cl : \A q \in Rects : \A interact \in BOOLEAN :
            LET r == applysizehints(World, c, q[1], q[2], q[3], q[4], interact)
                r2 == applysizehints(World, c, r.x, r.y, r.w, r.h, interact)
            IN << r2.x, r2.y, r2.w, r2.h >> = << r.x, r.y, r.w, r.h >>

----------------------------------------------------------------------------
(* C15, C19, C20: the geometry of the clients between the events *)

\* C15: between two events, on every monitor whose layout arranges, every
\* visible client that does not float has the geometry the layout computes
\* from the state of the monitor: running the layout again moves nothing.
C15_ArrangementCurrent ==
    running =>
        \A m \in DOMAIN mons :
            ltarrange(mons[m]) # "NULL" =>
                LET V == tiled(World, m)
                    T == arrangemon(World, m)
                IN \A i \in DOMAIN V : rect(T.cl[V[i]]) = rect(cl[V[i]])

\* C19: between two events every client that is fullscreen floats, has no
\* border and covers the rectangle (mx, my, mw, mh) of its monitor.
C19_FullscreenCoversMonitor ==
    \A c \in managed(World) :
        cl[c].isfullscreen =>
            LET M == mons[cl[c].mon]
            IN /\ cl[c].isfloating
               /\ cl[c].bw = 0
               /\ rect(cl[c]) = << M.mx, M.my, M.mw, M.mh >>

\* what a window can send while it is fullscreen, before it leaves the
\* fullscreen state: nothing, the message that adds the fullscreen state
\* once more, or a ConfigureRequest
WhileFullscreen(S, c) ==
    {S, clientmessage_state(S, c, 1)}
        \cup {configurerequest(S, c, ev) : ev \in GeomRequests}

\* C20: a client that is not fullscreen enters fullscreen and later leaves
\* it: setfullscreen(c, False) gives it the isfloating, the bw and the
\* rectangle it had before it entered.  The arrange that ends
\* setfullscreen moves the client again only if it is tiled then, or is
\* resized by showhide to its size hints.
C20_FullscreenRoundTrip ==
    running =>
        \A c \in managed(World) :
            ~cl[c].isfullscreen =>
                \A F \in WhileFullscreen(setfullscreen(World, c, TRUE), c) :
                    LET T == setfullscreen(F, c, FALSE)
                    IN /\ T.cl[c].isfloating = cl[c].isfloating
                       /\ T.cl[c].bw = cl[c].bw
                       /\ ~T.cl[c].isfullscreen
                       /\ \/ rect(T.cl[c]) = rect(cl[c])
                          \/ /\ ~T.cl[c].isfloating
                             /\ ltarrange(T.mons[T.cl[c].mon]) # "NULL"
                             /\ ISVISIBLE(T, c)

----------------------------------------------------------------------------
(* C21: the border width *)

\* C21: between two events every client that is not fullscreen has the
\* border width borderpx, and every fullscreen client the border width 0.
C21_BorderWidth ==
    \A c \in managed(World) :
        cl[c].bw = IF cl[c].isfullscreen THEN 0 ELSE borderpx

----------------------------------------------------------------------------
(* C22, C23: monitors that are removed *)

\* the clients of S on the monitors after the first nn
orphans(S, nn) == {c \in managed(S) : S.cl[c].mon > nn}

\* C22: when updategeom finds nn displays, fewer than there are monitors,
\* the first nn monitors are left; every client of a removed monitor is
\* once on the clients list and once on the stack of the first monitor and
\* has it as its mon; every client is once on the two lists of its monitor
\* and on no list of another; selmon is one of the monitors left.
C22_RemovedMonitors ==
    running =>
        \A nn \in 1..(Len(mons) - 1) : \A ptr \in 1..nn :
            LET T == updategeom(World, nn, FALSE, ptr)[1]
            IN /\ Len(T.mons) = nn
               /\ T.selmon \in DOMAIN T.mons
               /\ managed(T) = managed(World)
               /\ \A c \in orphans(World, nn) :
                      /\ T.cl[c].mon = 1
                      /\ Count(T.mons[1].clients, c) = 1
                      /\ Count(T.mons[1].stack, c) = 1
               /\ \A c \in managed(T) : \A m \in DOMAIN T.mons :
                      /\ Count(T.mons[m].clients, c) = IF T.cl[c].mon = m THEN 1 ELSE 0
                      /\ Count(T.mons[m].stack, c) = IF T.cl[c].mon = m THEN 1 ELSE 0
               /\ \A c \in managed(World) \ orphans(World, nn) :
                      T.cl[c].mon = cl[c].mon

\* C22 witness: the second monitor is selected and has two clients, and
\* the display that is left is found: both are on the lists of the first
\* monitor, which is selected
C22_Witness ==
    /\ running
    /\ Len(mons) = 2 /\ selmon = 2
    /\ Cardinality(orphans(World, 1)) = 2
    /\ LET T == updategeom(World, 1, FALSE, 1)[1]
       IN /\ Len(T.mons) = 1 /\ T.selmon = 1
          /\ Len(T.mons[1].clients) = 2 /\ Len(T.mons[1].stack) = 2

\* C23: when updategeom removes monitors, every client that moves to the
\* first monitor gets the tags of the view of the first monitor.
C23_OrphansGetView ==
    running =>
        \A nn \in 1..(Len(mons) - 1) : \A ptr \in 1..nn :
            LET T == updategeom(World, nn, FALSE, ptr)[1]
            IN \A c \in orphans(World, nn) :
                   T.cl[c].tags = curtags(T.mons[1])

----------------------------------------------------------------------------
(* C24: sendmon *)

\* C24: sendmon(c, m) with m other than the monitor of c takes c off the
\* clients and the stack of the monitor it was on, puts it at the head of
\* the clients and of the stack of m, sets c.mon to m and c.tags to the view
\* of m; the monitor c was on no longer has c as sel; every other client
\* keeps its tags, its monitor and its place on the lists it was on.
\* sendmon(c, c.mon) changes nothing.
C24_SendMon ==
    running =>
        \A c \in managed(World) : \A m \in DOMAIN mons :
            LET T == sendmon(World, c, m)
                old == cl[c].mon
            IN IF m = old THEN T = World
               ELSE /\ Count(T.mons[old].clients, c) = 0
                    /\ Count(T.mons[old].stack, c) = 0
                    /\ Head(T.mons[m].clients) = c
                    /\ Head(T.mons[m].stack) = c
                    /\ Count(T.mons[m].clients, c) = 1
                    /\ Count(T.mons[m].stack, c) = 1
                    /\ T.cl[c].mon = m
                    /\ T.cl[c].tags = curtags(mons[m])
                    /\ curtags(T.mons[m]) = curtags(mons[m])
                    /\ T.mons[old].sel # c
                    /\ managed(T) = managed(World)
                    /\ \A d \in managed(World) \ {c} :
                           /\ T.cl[d].tags = cl[d].tags
                           /\ T.cl[d].mon = cl[d].mon
                           /\ \A k \in DOMAIN mons :
                                  /\ Count(T.mons[k].clients, d) = Count(mons[k].clients, d)
                                  /\ Count(T.mons[k].stack, d) = Count(mons[k].stack, d)

\* A client that is the selection of the first monitor and shows other tags
\* than the second monitor is sent to the second monitor, which has a client.
C24_Witness ==
    /\ running /\ Len(mons) = 2
    /\ \E c \in managed(World) : \E d \in managed(World) \ {c} :
           /\ cl[c].mon = 1 /\ mons[1].sel = c /\ cl[d].mon = 2
           /\ cl[c].tags # curtags(mons[2])
           /\ LET T == sendmon(World, c, 2)
              IN /\ T.mons[2].clients = <<c, d>>
                 /\ T.mons[1].clients = << >>
                 /\ T.cl[c].tags = curtags(mons[2])

----------------------------------------------------------------------------
(* C25: the tags of a new client *)

\* C25: a window without WM_TRANSIENT_FOR that is managed gets the tags of
\* the first rule it matches, masked with TAGMASK, when that mask is not
\* zero, and the view of its monitor when it matches no rule or the mask is
\* zero: a Firefox window managed while the first tag is shown gets the
\* last tag.
C25_RuleTags ==
    running =>
        \A w \in Win : \A wa \in WinAttrs :
            (wintoclient(World, w) = NULL /\ ~wa.override_redirect /\ wa.trans = NULL) =>
                LET T == maprequest(World, w, wa)
                    ruletags == IF wa.matched = {} THEN {}
                                ELSE rules[Min(wa.matched)].tags \cap TAGMASK
                IN T.cl[w].tags = IF ruletags # {} THEN ruletags
                                  ELSE curtags(mons[T.cl[w].mon])

----------------------------------------------------------------------------
(* C26: setmfact *)

\* the arguments setmfact is tried with: those of the keys, and the
\* fractions 0.05, 0.10, 0.90 and 0.95 to set
MfactRequests == MfactArgs \cup {105, 110}

\* the fraction setmfact(f) asks for in state S, in hundredths
requested(S, f) == IF f < 100 THEN f + S.mons[S.selmon].mfact ELSE f - 100

----------------------------------------------------------------------------
(* C27: UnmapNotify and DestroyNotify *)

\* C27: an UnmapNotify with send_event set for the window of a client
\* changes no list, no selection and no client (only the WM_STATE property
\* of the window, which is with the X server); an UnmapNotify without
\* send_event ends the client: it is on no list, no monitor has it as sel
\* and every other client stays as it was.  UnmapNotify and DestroyNotify
\* for a window without a client change nothing.
C27_UnmapNotify ==
    running =>
        \A w \in Win :
            IF wintoclient(World, w) # NULL
            THEN /\ unmapnotify(World, w, TRUE) = World
                 /\ LET T == unmapnotify(World, w, FALSE)
                    IN /\ managed(T) = managed(World) \ {w}
                       /\ wintoclient(T, w) = NULL
                       /\ \A m \in DOMAIN T.mons :
                              /\ Count(T.mons[m].clients, w) = 0
                              /\ Count(T.mons[m].stack, w) = 0
                              /\ T.mons[m].sel # w
                              /\ T.mons[m].clients = RemoveFirst(mons[m].clients, w)
                       /\ \A d \in managed(T) :
                              /\ T.cl[d].tags = cl[d].tags
                              /\ T.cl[d].mon = cl[d].mon
                              /\ T.cl[d].isfloating = cl[d].isfloating
            ELSE \A se \in BOOLEAN :
                     /\ unmapnotify(World, w, se) = World
                     /\ destroynotify(World, w) = World

\* The selected client of a monitor with two clients: a synthetic
\* UnmapNotify leaves it selected, a real one hands the selection to the
\* other client.
C27_Witness ==
    /\ running
    /\ \E w \in Win : \E d \in Win \ {w} :
           /\ wintoclient(World, w) # NULL /\ wintoclient(World, d) # NULL
           /\ cl[d].mon = cl[w].mon /\ mons[cl[w].mon].sel = w
           /\ ISVISIBLE(World, d)
           /\ unmapnotify(World, w, TRUE).mons[cl[w].mon].sel = w
           /\ unmapnotify(World, w, FALSE).mons[cl[w].mon].sel = d
           /\ unmapnotify(World, w, FALSE).cl[w] = NoClient

----------------------------------------------------------------------------
(* C28: one client for a window *)

----------------------------------------------------------------------------
(* C29: ConfigureRequest of a tiled client *)

\* C29: a ConfigureRequest for a client that is not floating, on a monitor
\* whose layout arranges, changes none of x, y, w, h and bw of the client,
\* whatever the layouts of the other monitors and also when the request
\* carries a border width.
C29_TiledKeepsGeometry ==
    running =>
        \A c \in managed(World) : \A ev \in GeomRequests :
            (~cl[c].isfloating /\ ltarrange(mons[cl[c].mon]) # "NULL") =>
                LET T == configurerequest(World, c, ev)
                IN /\ T.cl[c].x = cl[c].x
                   /\ T.cl[c].y = cl[c].y
                   /\ T.cl[c].w = cl[c].w
                   /\ T.cl[c].h = cl[c].h
                   /\ T.cl[c].bw = cl[c].bw

----------------------------------------------------------------------------
(* C30: _NET_ACTIVE_WINDOW *)

\* C30: after a _NET_ACTIVE_WINDOW message for the window of client c, c is
\* visible on its monitor, is the head of the clients of its monitor, its
\* monitor is the selected one and c is the selected client there.  When c
\* was not visible its monitor now shows the tags of c and keeps the view it
\* showed before in the other slot of tagset; when c was visible the views
\* are as they were.
C30_ActiveWindow ==
    running =>
        \A c \in managed(World) :
            LET T == clientmessage(World, c)
                m == cl[c].mon
            IN /\ T.cl[c].mon = m
               /\ T.cl[c].tags = cl[c].tags
               /\ ISVISIBLE(T, c)
               /\ Head(T.mons[m].clients) = c
               /\ T.selmon = m
               /\ T.mons[m].sel = c
               /\ IF ISVISIBLE(World, c)
                  THEN /\ T.mons[m].tagset = mons[m].tagset
                       /\ T.mons[m].seltags = mons[m].seltags
                  ELSE /\ T.mons[m].seltags = 1 - mons[m].seltags
                       /\ curtags(T.mons[m]) = cl[c].tags
                       /\ T.mons[m].tagset[mons[m].seltags + 1] = curtags(mons[m])

\* A client that is not shown, second on the clients of a monitor that is
\* not the selected one and shows another client
C30_Witness ==
    /\ running /\ Len(mons) = 2
    /\ \E c \in managed(World) : \E d \in managed(World) \ {c} :
           /\ cl[c].mon # selmon /\ cl[d].mon = cl[c].mon
           /\ ~ISVISIBLE(World, c) /\ ISVISIBLE(World, d)
           /\ mons[cl[c].mon].clients = <<d, c>>
           /\ LET T == clientmessage(World, c)
              IN /\ T.mons[cl[c].mon].clients = <<c, d>>
                 /\ T.selmon = cl[c].mon
                 /\ ~ISVISIBLE(T, d)

----------------------------------------------------------------------------
(* C36: the selection of the selected monitor *)

\* C36: between two events the selected monitor has a selected client
\* exactly when one of its clients is visible.
C36_SelIffVisible ==
    running =>
        ((mons[selmon].sel = NULL) <=>
         ~(\E c \in managed(World) : cl[c].mon = selmon /\ ISVISIBLE(World, c)))

----------------------------------------------------------------------------
(* C38: the stack is the focus history *)

\* C38: focus(c) for a visible client puts c at the head of the stack of its
\* monitor and leaves the other clients of that stack in the order they had.
\* When the selected client of the selected monitor is unmanaged, or gets
\* tags outside the view, the selected monitor stays selected and its new
\* selection is the first client in the order of the stack, among those that
\* are left, that is visible, and NULL when none is.
C38_FocusHistory ==
    running =>
        /\ \A c \in managed(World) :
               ISVISIBLE(World, c) =>
                   LET T == focus(World, c)
                       m == cl[c].mon
                   IN /\ T.mons[m].stack = <<c>> \o RemoveFirst(mons[m].stack, c)
                      /\ T.mons[m].sel = c
        /\ mons[selmon].sel # NULL =>
               LET sel == mons[selmon].sel
                   rest == RemoveFirst(mons[selmon].stack, sel)
                   T == unmanage(World, sel)
               IN /\ T.selmon = selmon
                  /\ T.mons[selmon].sel = firstvisible(World, rest)
                  /\ RemoveFirst(T.mons[selmon].stack, T.mons[selmon].sel)
                         = RemoveFirst(rest, T.mons[selmon].sel)
                  /\ \A ui \in TagMasks :
                         (ui \cap curtags(mons[selmon]) = {}) =>
                             /\ tag(World, ui).selmon = selmon
                             /\ tag(World, ui).mons[selmon].sel = firstvisible(World, rest)

\* Three visible clients on the selected monitor, the selected one at the
\* head of the stack: when it goes the second of the stack is selected
C38_Witness ==
    /\ running
    /\ Len(mons[selmon].stack) = 3
    /\ \A c \in managed(World) : ISVISIBLE(World, c)
    /\ mons[selmon].sel = mons[selmon].stack[1]
    /\ mons[selmon].clients # mons[selmon].stack
    /\ unmanage(World, mons[selmon].sel).mons[selmon].sel = mons[selmon].stack[2]
    /\ unmanage(World, mons[selmon].sel).mons[selmon].stack = Tail(mons[selmon].stack)
    /\ focus(World, mons[selmon].stack[3]).mons[selmon].stack
           = << mons[selmon].stack[3], mons[selmon].stack[1], mons[selmon].stack[2] >>

----------------------------------------------------------------------------
(* C40: zoom *)

----------------------------------------------------------------------------
(* C39: setlayout *)

\* sellt and the two slots of lt of the selected monitor
ltstate(S) == << S.mons[S.selmon].sellt, S.mons[S.selmon].lt >>

\* the layout the selected monitor uses
curlt(S) == S.mons[S.selmon].lt[S.mons[S.selmon].sellt + 1]

\* C39: setlayout(L) with L other than the current layout makes L current
\* and keeps the layout that was current in the other slot of lt, and a
\* setlayout(NULL) after it makes that layout current again; setlayout(NULL)
\* twice leaves sellt and both slots as they were; setlayout(L) with L the
\* current layout changes neither sellt nor a slot.
C39_SetLayout ==
    running =>
        /\ ltstate(setlayout(setlayout(World, NULL), NULL)) = ltstate(World)
        /\ curlt(setlayout(World, NULL)) = mons[selmon].lt[2 - mons[selmon].sellt]
        /\ \A v \in DOMAIN layouts :
               LET T == setlayout(World, v)
               IN IF v = curlt(World)
                  THEN ltstate(T) = ltstate(World)
                  ELSE /\ curlt(T) = v
                       /\ T.mons[selmon].sellt = 1 - mons[selmon].sellt
                       /\ T.mons[selmon].lt[mons[selmon].sellt + 1] = curlt(World)
                       /\ curlt(setlayout(T, NULL)) = curlt(World)
                       /\ T.selmon = selmon
                       /\ \A k \in DOMAIN mons \ {selmon} : T.mons[k] = mons[k]

\* The selected monitor uses monocle after a setlayout, with tile in the
\* other slot, and has a client: setlayout to the floating layout keeps
\* monocle in the other slot, and setlayout(NULL) goes back to tile.
C39_Witness ==
    /\ running
    /\ mons[selmon].sel # NULL
    /\ mons[selmon].sellt = 1
    /\ mons[selmon].lt = << 1, 3 >>
    /\ ltstate(setlayout(World, 2)) = << 0, << 2, 3 >> >>
    /\ curlt(setlayout(World, NULL)) = 1
    /\ setlayout(World, NULL).cl # cl

----------------------------------------------------------------------------
(* C35: the state saved for the way out of fullscreen *)

\* what setfullscreen(c, False) restores
saved(C) == << C.oldstate, C.oldbw, C.oldx, C.oldy, C.oldw, C.oldh >>

\* C35: a _NET_WM_STATE message that adds the fullscreen state to a client
\* that is fullscreen leaves oldstate, oldbw, oldx, oldy, oldw and oldh of
\* the client as they are.
C35_AddKeepsSaved ==
    running =>
        \A c \in managed(World) :
            cl[c].isfullscreen =>
                saved(clientmessage_state(World, c, 1).cl[c]) = saved(cl[c])

----------------------------------------------------------------------------
(* C34: where the windows are *)

\* C34: between two events the window of a client that is not visible is
\* at x = -2 * WIDTH(c), out of the screen, and the window of a visible
\* client is at (c.x, c.y).
C34_WindowPosition ==
    running =>
        \A c \in managed(World) :
            IF ISVISIBLE(World, c)
            THEN cl[c].winx = cl[c].x /\ cl[c].winy = cl[c].y
            ELSE cl[c].winx = WIDTH(cl[c]) * (-2)

----------------------------------------------------------------------------
(* C33: killclient *)

\* C33: a client that got the WM_DELETE_WINDOW message of killclient and
\* does not close its window is killed in the end; a client whose window
\* does not take part in the protocol is killed by killclient itself.
C33_CloseEscalates ==
    /\ \A w \in Win : (cl[w].closing = "asked") ~> (cl[w].closing # "asked")
    /\ [][\A w \in Win \ DeleteWindows :
              (running /\ mons[selmon].sel = w /\ cl' = killclient(World).cl)
                  => cl'[w].closing = "killed"]_vars

----------------------------------------------------------------------------
(* C37, C32, C31: the pointer grab of movemouse and resizemouse *)

\* C37: when movemouse or resizemouse has returned to run(), the pointer
\* grab that it took is released, on every path of the function.
C37_GrabReleased == running => ~grab.held

\* C32: a MotionNotify in the loop of movemouse or resizemouse changes the
\* isfloating flag of no client but the client c that is dragged, whatever
\* MapRequest events the loop has handled before. (The claim says the same
\* of the geometry of the other clients.)
C32_DragTogglesSelf ==
    [][(inloop /\ grab'.type = "MotionNotify")
           => \A d \in Win \ {grab.c} : cl'[d].isfloating = cl[d].isfloating]_vars

Handled5 == {"MotionNotify", "ConfigureRequest", "Expose", "MapRequest", "ButtonRelease"}

====
